---------------------------- MODULE Spec2Model ----------------------------
(***************************************************************************)
(* Verification model of the wallet-tracker risk-scoring pipeline          *)
(* (enhanced-analyzer behavioral analyzer) and of its real-time monitor.   *)
(*                                                                         *)
(* Conventions of the model                                                *)
(*  - float64 quantities (severities, scores, confidence) are carried as   *)
(*    integers in thousandths: 0.85 is 850, 1.0 is 1000.                   *)
(*  - Transaction.Value is counted in units of 10^17 wei, so one ether     *)
(*    (1e18 wei) is Ether = 10 units; the first decimal digit of a value   *)
(*    is the same in both units.  Transaction.GasPrice is in wei.          *)
(*  - a numeric string field that is not a decimal integer is carried as   *)
(*    a negative number; a decimal string is carried as its value.         *)
(*  - Transaction.Input is carried as its length and its first ten         *)
(*    characters (the method id).                                          *)
(*  - Transaction.Hash and Transaction.BlockNumber are carried as numbers; *)
(*    RealTimeMonitor.LastBlockNumber is <<>> for the empty string and     *)
(*    <<n>> for the block number n.                                        *)
(*  - gas prices of the lists explored stay far below 200 Gwei, so the     *)
(*    high-gas term of analyzeTransaction is modelled but adds nothing.    *)
(***************************************************************************)
EXTENDS Integers, Sequences, FiniteSets, TLC

VARIABLES
    knownAddresses,   \* ba.knownAddresses: the four lookup tables (as key sets)
    txs,              \* the transaction list the explorer returns, newest first
    response,         \* what the explorer answered the last request ("none" before)
    monitor,          \* the RealTimeMonitor and the position of its loop
    analysis,         \* what analyzeAddress returned last (NoAnalysis before)
    displayed,        \* whether displayResults has printed (and sorted) the result
    p90,              \* the p90 argument handed to the gas pattern detectors
    out               \* what the extractor applied last returned

vars == <<monitor, knownAddresses, txs, response, analysis, displayed, p90, out>>

----------------------------------------------------------------------------
(* Arithmetic helpers                                                      *)

Min(a, b) == IF a < b THEN a ELSE b

Max(a, b) == IF a > b THEN a ELSE b

RECURSIVE SumSeq(_)
SumSeq(s) == IF s = <<>> THEN 0 ELSE Head(s) + SumSeq(Tail(s))

\* An int64 product.  The gas prices handed to the gas-pattern detectors
\* are counted in units of 2^40 wei where their size matters: an int64 then
\* holds -2^23 .. 2^23 - 1 units, and the product of a price by a constant
\* wraps modulo 2^24 units exactly as the product in wei wraps modulo 2^64.
int64(x) == ((x + 2^23) % 2^24) - 2^23

\* f applied to every element of s.
MapSeq(s, f(_)) == [i \in 1..Len(s) |-> f(s[i])]

Range(s) == {s[i] : i \in 1..Len(s)}

\* All orders in which the keys of a Go map may be ranged over.
Orders(S) == {q \in [1..Cardinality(S) -> S] : Range(q) = S}

----------------------------------------------------------------------------
(* Strings and numbers of a Transaction                                    *)

\* strings.ToLower on the address strings of the model.
ToLower(s) ==
    CASE s = "0xA" -> "0xa"
      [] s = "0xB" -> "0xb"
      [] s = "0xC" -> "0xc"
      [] OTHER -> s

\* strings.EqualFold
EqualFold(a, b) == ToLower(a) = ToLower(b)

\* new(big.Int).SetString(s, 10): ok is false for a string that is no decimal
\* integer, and the *big.Int returned then is nil.
SetStringOk(s) == s >= 0

\* strconv.ParseInt(s, 10, 64) with the error dropped: 0 on a parse error.
ParseInt(s) == IF s >= 0 THEN s ELSE 0

\* Ten to the eighteenth wei, in the model's unit of value (10^17 wei).
Ether == 10

\* runAnalysis: the thresholds the analyzer is built with.
\* GasAnomalyMultiplier 3.0 and BenfordDeviationLimit 0.15 are float64.
riskThresholds ==
    [ HighValueThreshold    |-> 10,
      VelocityThreshold     |-> 20,
      GasAnomalyMultiplier  |-> 3000,
      NewAddressAgeMinutes  |-> 60,
      BenfordDeviationLimit |-> 150 ]

\* A BehavioralFlag: its type, its severity (thousandths) and, of its
\* evidence, the transaction hash (0 when it names none) and the address
\* ("" when it names none).
Flag(type, severity, hash, addr) ==
    [Type |-> type, Severity |-> severity, TxHash |-> hash, Addr |-> addr]

----------------------------------------------------------------------------
(* Behavioral extractors                                                   *)

\* analyzeVelocity: nil (the empty sequence) or one high_velocity flag.
analyzeVelocity(t) ==
    IF Len(t) < 2 THEN <<>>
    ELSE
      LET hourKey(i) == ParseInt(t[i].TimeStamp) \div 3600
          hourlyTxs == [h \in {hourKey(i) : i \in 1..Len(t)} |->
                          Cardinality({i \in 1..Len(t) : hourKey(i) = h})]
          maxTxPerHour ==
              CHOOSE m \in Range([i \in 1..Len(t) |-> hourlyTxs[hourKey(i)]]) :
                  \A h \in DOMAIN hourlyTxs : hourlyTxs[h] <= m
      IN  IF maxTxPerHour > riskThresholds.VelocityThreshold
          THEN << Flag("high_velocity",
                       (maxTxPerHour * 1000) \div riskThresholds.VelocityThreshold,
                       0, "") >>
          ELSE <<>>

\* A nil *big.Int is dereferenced (Add, Cmp, SetInt): the goroutine panics.
\* analyzeValueConcentration adds every transaction's parsed value.
analyzeValueConcentrationPanics(t) ==
    \E i \in 1..Len(t) : ~SetStringOk(t[i].Value)

\* analyzeValueConcentration: nil or one rapid_drainage flag.
analyzeValueConcentration(t) ==
    IF Len(t) >= 5
    THEN LET recent == {i \in 1..5 : ~EqualFold(t[i].To, t[1].From)}
             recentOutgoing == SumSeq([i \in 1..5 |->
                                  IF i \in recent THEN t[i].Value ELSE 0])
         IN  IF recentOutgoing > riskThresholds.HighValueThreshold * Ether
             THEN << Flag("rapid_drainage", 900, 0, "") >>
             ELSE <<>>
    ELSE <<>>

\* analyzeNewAddressBehavior at wall-clock time now: nil or one
\* new_address_high_value flag.
analyzeNewAddressBehavior(t, now) ==
    IF Len(t) = 0 THEN <<>>
    ELSE
      LET firstTxTime == ParseInt(t[Len(t)].TimeStamp)
          ageMinutes == (now - firstTxTime) \div 60
          totalValue == SumSeq([i \in 1..Len(t) |-> t[i].Value])
      IN  IF ageMinutes < riskThresholds.NewAddressAgeMinutes
             /\ totalValue > riskThresholds.HighValueThreshold * Ether
          THEN << Flag("new_address_high_value", 850, 0, "") >>
          ELSE <<>>

\* The transactions whose gas price parses to a positive number.
validGas(t) == {i \in 1..Len(t) : SetStringOk(t[i].GasPrice) /\ t[i].GasPrice > 0}

\* analyzeGasAnomalies: the second loop compares every transaction's parsed
\* gas price, nil for a malformed one.
analyzeGasAnomaliesPanics(t) ==
    /\ Len(t) >= 3
    /\ validGas(t) # {}
    /\ \E i \in 1..Len(t) : ~SetStringOk(t[i].GasPrice)

\* analyzeGasAnomalies: one gas_anomaly flag per transaction above
\* avgGasPrice * int64(GasAnomalyMultiplier), in feed order.  avgGasPrice is
\* big.Int.Div of the total by the count: the quotient rounded down.
analyzeGasAnomalies(t) ==
    IF Len(t) < 3 \/ validGas(t) = {} THEN <<>>
    ELSE
      LET totalGasPrice == SumSeq([i \in 1..Len(t) |->
                              IF i \in validGas(t) THEN t[i].GasPrice ELSE 0])
          validTxCount == Cardinality(validGas(t))
          avgGasPrice == totalGasPrice \div validTxCount
          threshold == avgGasPrice * (riskThresholds.GasAnomalyMultiplier \div 1000)
          hit(tx) == tx.GasPrice > threshold
      IN  MapSeq(SelectSeq(t, hit), LAMBDA tx : Flag("gas_anomaly", 700, tx.Hash, ""))

\* The static table analyzeInteractionPatterns looks method ids up in: its
\* keys are pattern names, its values severities.
suspiciousPatterns ==
    [ rapid_drainage     |-> 900,
      mixer_sequence     |-> 850,
      flash_loan_attack  |-> 950,
      reentrancy_pattern |-> 900,
      sandwich_attack    |-> 800,
      honeypot_drainage  |-> 850,
      circular_transfers |-> 700 ]

\* fromTo of detectCircularPattern: for every sender the receivers, in feed
\* order, of the transactions with both addresses present.
fromToOf(t) ==
    LET edges == SelectSeq(t, LAMBDA tx : ToLower(tx.From) # "" /\ ToLower(tx.To) # "")
    IN  [f \in {ToLower(edges[i].From) : i \in 1..Len(edges)} |->
            MapSeq(SelectSeq(edges, LAMBDA tx : ToLower(tx.From) = f),
                   LAMBDA tx : ToLower(tx.To))]

\* fromTo[node]: the nil slice for a node that sent nothing.
neighborsOf(fromTo, node) ==
    IF node \in DOMAIN fromTo THEN fromTo[node] ELSE <<>>

\* The closure hasCycle of detectCircularPattern: depth-first search with the
\* visited set and the recursion stack; visitFrom is its loop over the
\* neighbours of node from the k-th on.
RECURSIVE hasCycle(_, _, _)
RECURSIVE visitFrom(_, _, _, _)
visitFrom(fromTo, node, k, st) ==
    IF k > Len(neighborsOf(fromTo, node))
    THEN [found |-> FALSE, visited |-> st.visited, recStack |-> st.recStack \ {node}]
    ELSE LET neighbor == neighborsOf(fromTo, node)[k]
         IN  IF neighbor \notin st.visited
             THEN LET r == hasCycle(fromTo, neighbor, st)
                  IN  IF r.found THEN r ELSE visitFrom(fromTo, node, k + 1, r)
             ELSE IF neighbor \in st.recStack
             THEN [found |-> TRUE, visited |-> st.visited, recStack |-> st.recStack]
             ELSE visitFrom(fromTo, node, k + 1, st)

hasCycle(fromTo, node, st) ==
    visitFrom(fromTo, node, 1,
              [found |-> FALSE,
               visited |-> st.visited \cup {node},
               recStack |-> st.recStack \cup {node}])

\* The loop of detectCircularPattern over the keys of fromTo, ranged over in
\* the order nodeOrder, from the k-th key on.
RECURSIVE searchFrom(_, _, _, _)
searchFrom(fromTo, nodeOrder, k, st) ==
    IF k > Len(nodeOrder) THEN FALSE
    ELSE IF nodeOrder[k] \in st.visited
    THEN searchFrom(fromTo, nodeOrder, k + 1, st)
    ELSE LET r == hasCycle(fromTo, nodeOrder[k], st)
         IN  r.found \/ searchFrom(fromTo, nodeOrder, k + 1, r)

\* detectCircularPattern, the map fromTo ranged over in the order nodeOrder.
detectCircularPattern(t, nodeOrder) ==
    IF Len(t) < 4 THEN FALSE
    ELSE searchFrom(fromToOf(t), nodeOrder, 1,
                    [found |-> FALSE, visited |-> {}, recStack |-> {}])

\* The keys of the interactions map of analyzeInteractionPatterns.
interactionsOf(t) == {ToLower(t[i].To) : i \in {j \in 1..Len(t) : t[j].To # ""}}

\* analyzeInteractionPatterns: suspicious_method flags in feed order, then
\* the mixer_interaction flags in the order the interactions map is ranged
\* over, then at most one circular_pattern flag.
analyzeInteractionPatterns(t, order, nodeOrder) ==
    LET methodHit(tx) == tx.Input.len >= 10 /\ tx.Input.methodId \in DOMAIN suspiciousPatterns
        methodFlags == MapSeq(SelectSeq(t, methodHit),
                              LAMBDA tx : Flag("suspicious_method", 800, tx.Hash, ""))
        mixerFlags == MapSeq(SelectSeq(order, LAMBDA a : a \in knownAddresses.Mixers),
                             LAMBDA a : Flag("mixer_interaction", 850, 0, a))
        circular == IF detectCircularPattern(t, nodeOrder)
                    THEN << Flag("circular_pattern", 750, 0, "") >>
                    ELSE <<>>
    IN  methodFlags \o mixerFlags \o circular

\* timeGaps of analyzeTimePatterns and calculateTemporalAnomalyScore: the
\* positive differences time[i-1] - time[i] of feed-adjacent transactions.
timeGapsOf(t) ==
    LET gap(i) == ParseInt(t[i].TimeStamp) - ParseInt(t[i + 1].TimeStamp)
    IN  SelectSeq([i \in 1..(Len(t) - 1) |-> gap(i)], LAMBDA g : g > 0)

\* calculateVariance as the exact fraction <<numerator, denominator>>: with
\* n values of sum S it is sum((n*v - S)^2) / n^3 (0 for no value).
calculateVariance(values) ==
    IF Len(values) = 0 THEN <<0, 1>>
    ELSE LET n == Len(values)
             S == SumSeq(values)
         IN  << SumSeq([i \in 1..n |-> (n * values[i] - S) * (n * values[i] - S)]),
                n * n * n >>

\* analyzeTimePatterns: automated_behavior and burst_pattern.  With no
\* positive gap the burst ratio is 0/0, a NaN, which is not above 0.5.
analyzeTimePatterns(t) ==
    IF Len(t) < 3 THEN <<>>
    ELSE
      LET timeGaps == timeGapsOf(t)
          variance == calculateVariance(timeGaps)
          automated == IF Len(timeGaps) >= 5 /\ variance[1] < 10 * variance[2]
                       THEN << Flag("automated_behavior", 600, 0, "") >>
                       ELSE <<>>
          burstCount == Len(SelectSeq(timeGaps, LAMBDA g : g < 60))
          burst == IF Len(timeGaps) > 0 /\ 2 * burstCount > Len(timeGaps)
                   THEN << Flag("burst_pattern", 700, 0, "") >>
                   ELSE <<>>
      IN  automated \o burst

\* analyzeBehavioralPatterns: the six extractors in their fixed order.
analyzeBehavioralPatterns(t, now, order, nodeOrder) ==
    analyzeVelocity(t)
      \o analyzeValueConcentration(t)
      \o analyzeNewAddressBehavior(t, now)
      \o analyzeGasAnomalies(t)
      \o analyzeInteractionPatterns(t, order, nodeOrder)
      \o analyzeTimePatterns(t)

----------------------------------------------------------------------------
(* Statistical analyzers: each score in thousandths, rounded down          *)

\* The first decimal digit of a positive number.
RECURSIVE firstDigit(_)
firstDigit(v) == IF v < 10 THEN v ELSE firstDigit(v \div 10)

\* calculateBenfordScore: the chi-square distance of the first-digit
\* frequencies from Benford's distribution, over BenfordDeviationLimit.
calculateBenfordScore(t) ==
    IF Len(t) < 10 THEN 0
    ELSE
      LET benfordExpected == <<301, 176, 125, 97, 79, 67, 58, 51, 46>>
          valued == {i \in 1..Len(t) : SetStringOk(t[i].Value) /\ t[i].Value # 0}
          digitCounts == [d \in 1..9 |->
                            Cardinality({i \in valued : firstDigit(t[i].Value) = d})]
          totalCount == Cardinality(valued)
          observed(d) == (digitCounts[d] * 1000) \div totalCount
          term(d) == ((observed(d) - benfordExpected[d]) * (observed(d) - benfordExpected[d]))
                        \div benfordExpected[d]
          chiSquare == SumSeq([d \in 1..9 |-> term(d)])
      IN  IF totalCount < 10 THEN 0
          ELSE Min((chiSquare * 1000) \div riskThresholds.BenfordDeviationLimit, 1000)

\* calculateVelocityScore: 3600 / gap for the feed-adjacent gaps in (0, 3600),
\* the largest of them over 20, at most 1.
calculateVelocityScore(t) ==
    IF Len(t) < 2 THEN 0
    ELSE
      LET timeDiff(i) == ParseInt(t[i].TimeStamp) - ParseInt(t[i + 1].TimeStamp)
          within == {timeDiff(i) : i \in 1..(Len(t) - 1)} \cap 1..3599
      IN  IF within = {} THEN 0
          ELSE LET least == CHOOSE d \in within : \A e \in within : d <= e
               IN  Min((3600 * 1000) \div (least * 20), 1000)

\* math.Log2 of the whole numbers 1..64, in thousandths.
log2Table ==
    << 0, 1000, 1584, 2000, 2321, 2584, 2807, 3000,
       3169, 3321, 3459, 3584, 3700, 3807, 3906, 4000,
       4087, 4169, 4247, 4321, 4392, 4459, 4523, 4584,
       4643, 4700, 4754, 4807, 4857, 4906, 4954, 5000,
       5044, 5087, 5129, 5169, 5209, 5247, 5285, 5321,
       5357, 5392, 5426, 5459, 5491, 5523, 5554, 5584,
       5614, 5643, 5672, 5700, 5727, 5754, 5781, 5807,
       5832, 5857, 5882, 5906, 5930, 5954, 5977, 6000 >>

\* calculateEntropyScore: the Shannon entropy of the receivers' distribution
\* over log2 of the number of receivers; -p*log2(p) summed over the receivers
\* is (sum of count * (log2 total - log2 count)) / total.
calculateEntropyScore(t) ==
    LET withTo == {i \in 1..Len(t) : t[i].To # ""}
        keys == {ToLower(t[i].To) : i \in withTo}
        count(a) == Cardinality({i \in withTo : ToLower(t[i].To) = a})
        total == Cardinality(withTo)
        RECURSIVE sumOver(_)
        sumOver(S) == IF S = {} THEN 0
                      ELSE LET a == CHOOSE x \in S : TRUE
                           IN  count(a) * (log2Table[total] - log2Table[count(a)])
                                 + sumOver(S \ {a})
        entropy == sumOver(keys) \div total
    IN  IF total = 0 THEN 0
        ELSE IF Cardinality(keys) > 1
        THEN (entropy * 1000) \div log2Table[Cardinality(keys)]
        ELSE 0

\* Mutant of neighborsMap: only the receiver is entered as a neighbour of
\* the sender.
neighborsMapDirected(t) ==
    LET edges == {<<ToLower(t[i].From), ToLower(t[i].To)>> :
                     i \in {j \in 1..Len(t) : ToLower(t[j].From) # "" /\ ToLower(t[j].To) # ""}}
        nodes == {e[1] : e \in edges} \cup {e[2] : e \in edges}
    IN  [n \in nodes |-> {e[2] : e \in {x \in edges : x[1] = n}}]

\* neighbors of calculateClusteringScore: for every address of a transaction
\* with both addresses present, the addresses it shares a transaction with.
neighborsMap(t) ==
    LET edges == {<<ToLower(t[i].From), ToLower(t[i].To)>> :
                     i \in {j \in 1..Len(t) : ToLower(t[j].From) # "" /\ ToLower(t[j].To) # ""}}
        nodes == {e[1] : e \in edges} \cup {e[2] : e \in edges}
    IN  [n \in nodes |-> {e[2] : e \in {x \in edges : x[1] = n}}
                           \cup {e[1] : e \in {x \in edges : x[2] = n}}]

RECURSIVE gcd(_, _)
gcd(a, b) == IF b = 0 THEN a ELSE gcd(b, a % b)

\* The sum of two fractions <<numerator, denominator>>, in lowest terms.
addFraction(x, y) ==
    LET num == x[1] * y[2] + y[1] * x[2]
        den == x[2] * y[2]
        g == gcd(num, den)
    IN  <<num \div g, den \div g>>

\* triangles / possibleTriangles of one node: the pairs of its neighbours
\* that are neighbours of each other, over all pairs of its neighbours.
localCoefficient(neighbors, n) ==
    LET k == Cardinality(neighbors[n])
        triangles == Cardinality({pair \in SUBSET neighbors[n] :
                        /\ Cardinality(pair) = 2
                        /\ \E a \in pair : \E b \in pair :
                              a # b /\ b \in neighbors[a]})
    IN  <<triangles, (k * (k - 1)) \div 2>>

\* The nodes whose local coefficient enters the average of
\* calculateClusteringScore: those not skipped for having fewer than two
\* neighbours, with possibleTriangles > 0.
clusteringNodes(neighbors) ==
    {n \in DOMAIN neighbors :
        /\ ~(Cardinality(neighbors[n]) < 2)
        /\ localCoefficient(neighbors, n)[2] > 0}

\* calculateClusteringScore as the exact fraction <<totalCoeff, nodeCount>>
\* brought to lowest terms (<<0, 1>> when no node enters the average).
calculateClusteringScore(t) ==
    LET neighbors == neighborsMap(t)
        RECURSIVE totalCoeff(_)
        totalCoeff(S) == IF S = {} THEN <<0, 1>>
                         ELSE LET n == CHOOSE x \in S : TRUE
                              IN  addFraction(localCoefficient(neighbors, n),
                                              totalCoeff(S \ {n}))
        nodeCount == Cardinality(clusteringNodes(neighbors))
    IN  IF nodeCount > 0
        THEN addFraction(<<0, 1>>,
                         <<totalCoeff(clusteringNodes(neighbors))[1],
                           totalCoeff(clusteringNodes(neighbors))[2] * nodeCount>>)
        ELSE <<0, 1>>

\* calculateTemporalAnomalyScore: the share of the positive gaps further than
\* two standard deviations from the mean gap.  With n gaps of sum S,
\* |g - mean| > 2*stdDev is n*(n*g - S)^2 > 4*sum((n*g_i - S)^2).
calculateTemporalAnomalyScore(t) ==
    IF Len(t) < 3 THEN 0
    ELSE
      LET timeGaps == timeGapsOf(t)
          n == Len(timeGaps)
          S == SumSeq(timeGaps)
          dev2(g) == (n * g - S) * (n * g - S)
          total == SumSeq([i \in 1..n |-> dev2(timeGaps[i])])
          bound == 4 * (total \div n) + (4 * (total % n)) \div n
          anomalyCount == Len(SelectSeq(timeGaps, LAMBDA g : dev2(g) > bound))
      IN  IF n < 2 THEN 0 ELSE (anomalyCount * 1000) \div n

\* performStatisticalAnalysis
performStatisticalAnalysis(t) ==
    LET clustering == calculateClusteringScore(t)
    IN  [ BenfordScore    |-> calculateBenfordScore(t),
          VelocityScore   |-> calculateVelocityScore(t),
          EntropyScore    |-> calculateEntropyScore(t),
          ClusteringScore |-> (clustering[1] * 1000) \div clustering[2],
          TemporalAnomaly |-> calculateTemporalAnomalyScore(t) ]

----------------------------------------------------------------------------
(* Real-time indicators, aggregation, recommendations                      *)

\* A real-time flag: the kind of its message and the address it names.
RealTimeFlag(kind, addr) == [kind |-> kind, addr |-> addr]

\* checkEtherscanLabels: the table the address is found in first, "" if none.
checkEtherscanLabels(address) ==
    CASE address \in knownAddresses.Exchanges -> "Exchange"
      [] address \in knownAddresses.Mixers    -> "Mixer"
      [] address \in knownAddresses.Hackers   -> "Known Hacker"
      [] address \in knownAddresses.Contracts -> "Contract"
      [] OTHER -> ""

\* checkSuspiciousInteractions: one message per distinct receiver found in
\* the Hackers table, in the order of its first transaction.
checkSuspiciousInteractions(t) ==
    LET first(i) == /\ ToLower(t[i].To) # ""
                    /\ \A j \in 1..(i - 1) : ToLower(t[j].To) # ToLower(t[i].To)
                    /\ ToLower(t[i].To) \in knownAddresses.Hackers
        idx == SelectSeq([i \in 1..Len(t) |-> i], first)
    IN  MapSeq(idx, LAMBDA i : RealTimeFlag("hacker", ToLower(t[i].To)))

\* checkRealTimeRisks
checkRealTimeRisks(t) ==
    LET failedCount == Cardinality({i \in 1..Len(t) : t[i].IsError = "1"})
        contractsCreated == Cardinality({i \in 1..Len(t) : t[i].ContractAddress # ""})
    IN  (IF failedCount > Len(t) \div 4
         THEN << RealTimeFlag("high_failure_rate", "") >> ELSE <<>>)
        \o (IF contractsCreated > 0
            THEN << RealTimeFlag("created_contracts", "") >> ELSE <<>>)
        \o checkSuspiciousInteractions(t)

\* The risk score of calculateFinalRiskScore before math.Min(finalScore, 1.0).
finalScore(a) ==
    LET flags == a.BehavioralFlags
        flagScore == SumSeq([i \in 1..Len(flags) |-> flags[i].Severity * flags[i].Severity])
        flagWeight == SumSeq([i \in 1..Len(flags) |-> flags[i].Severity])
        statScore == a.StatisticalScores.BenfordScore * 700
                       + a.StatisticalScores.VelocityScore * 800
                       + a.StatisticalScores.EntropyScore * 500
                       + a.StatisticalScores.ClusteringScore * 600
                       + a.StatisticalScores.TemporalAnomaly * 700
        statWeight == 700 + 800 + 500 + 600 + 700
        realTimeWeight == 900
        hasRealTime == Len(a.RealTimeFlags) > 0
        totalScore == flagScore + statScore
                        + (IF hasRealTime
                           THEN Len(a.RealTimeFlags) * 200 * realTimeWeight ELSE 0)
        totalWeight == flagWeight + statWeight + (IF hasRealTime THEN realTimeWeight ELSE 0)
    IN  IF totalWeight > 0 THEN totalScore \div totalWeight ELSE 0

\* txCount of calculateFinalRiskScore: DetailedAnalysis["transaction_count"]
\* when the map holds it, 0 otherwise.
txCountOf(a) ==
    IF "transaction_count" \in DOMAIN a.DetailedAnalysis
    THEN a.DetailedAnalysis["transaction_count"] ELSE 0

\* Mutant of calculateFinalRiskScore: the final score returned without
\* math.Min.
calculateFinalRiskScoreNoClamp(a) ==
    << finalScore(a),
       (Min((Len(a.BehavioralFlags) * 1000) \div 5, 1000) * 500) \div 1000
         + (Min((txCountOf(a) * 1000) \div 50, 1000) * 500) \div 1000 >>

\* calculateFinalRiskScore: <<risk score, confidence>>.
calculateFinalRiskScore(a) ==
    << Min(finalScore(a), 1000),
       (Min((Len(a.BehavioralFlags) * 1000) \div 5, 1000) * 500) \div 1000
         + (Min((txCountOf(a) * 1000) \div 50, 1000) * 500) \div 1000 >>

\* Mutant of generateRecommendations: the follow-up of a mixer flag names
\* the mixer.
generateRecommendationsNamingMixer(a) ==
    LET tier == IF a.RiskScore > 800 THEN <<"CRITICAL", "Report to relevant authorities">>
                ELSE IF a.RiskScore > 600 THEN <<"HIGH RISK", "Perform additional due diligence">>
                ELSE IF a.RiskScore > 400 THEN <<"MEDIUM RISK", "Monitor this address closely">>
                ELSE IF a.RiskScore > 200 THEN <<"LOW RISK", "Generally safe">>
                ELSE <<"MINIMAL RISK">>
        message(type) == CASE type = "mixer_interaction" -> "Consider blockchain analysis tools"
                           [] type = "high_velocity" -> "Monitor for potential automated attack patterns"
                           [] type = "new_address_high_value" -> "Verify the legitimacy"
                           [] OTHER -> ""
        typed == SelectSeq(a.BehavioralFlags, LAMBDA f : message(f.Type) # "")
    IN  tier \o MapSeq(typed, LAMBDA f : IF f.Type = "mixer_interaction" THEN f.Addr
                                         ELSE message(f.Type))

\* Mutant of generateRecommendations: the tiers with inclusive lower bounds.
generateRecommendationsInclusive(a) ==
    LET tier == IF a.RiskScore >= 800 THEN <<"CRITICAL", "Report to relevant authorities">>
                ELSE IF a.RiskScore >= 600 THEN <<"HIGH RISK", "Perform additional due diligence">>
                ELSE IF a.RiskScore >= 400 THEN <<"MEDIUM RISK", "Monitor this address closely">>
                ELSE IF a.RiskScore >= 200 THEN <<"LOW RISK", "Generally safe">>
                ELSE <<"MINIMAL RISK">>
        message(type) == CASE type = "mixer_interaction" -> "Consider blockchain analysis tools"
                           [] type = "high_velocity" -> "Monitor for potential automated attack patterns"
                           [] type = "new_address_high_value" -> "Verify the legitimacy"
                           [] OTHER -> ""
        typed == SelectSeq(a.BehavioralFlags, LAMBDA f : message(f.Type) # "")
    IN  tier \o MapSeq(typed, LAMBDA f : message(f.Type))

\* generateRecommendations: the messages of the risk tier, then one message
\* per flag of the three types that have one, in flag order.
generateRecommendations(a) ==
    LET tier == IF a.RiskScore > 800 THEN <<"CRITICAL", "Report to relevant authorities">>
                ELSE IF a.RiskScore > 600 THEN <<"HIGH RISK", "Perform additional due diligence">>
                ELSE IF a.RiskScore > 400 THEN <<"MEDIUM RISK", "Monitor this address closely">>
                ELSE IF a.RiskScore > 200 THEN <<"LOW RISK", "Generally safe">>
                ELSE <<"MINIMAL RISK">>
        message(type) == CASE type = "mixer_interaction" -> "Consider blockchain analysis tools"
                           [] type = "high_velocity" -> "Monitor for potential automated attack patterns"
                           [] type = "new_address_high_value" -> "Verify the legitimacy"
                           [] OTHER -> ""
        typed == SelectSeq(a.BehavioralFlags, LAMBDA f : message(f.Type) # "")
    IN  tier \o MapSeq(typed, LAMBDA f : message(f.Type))

----------------------------------------------------------------------------
(* analyzeAddress and displayResults                                       *)

NoAnalysis == [status |-> "none"]

\* The empty map analyzeAddress starts DetailedAnalysis with.
emptyMap == [k \in {} |-> 0]

\* The nil-pointer dereferences analyzeAddress runs into on a non-empty list:
\* a malformed value (analyzeValueConcentration, first) or a malformed gas
\* price next to a positive one in a list of three or more.
analyzeAddressPanics(t) ==
    analyzeValueConcentrationPanics(t) \/ analyzeGasAnomaliesPanics(t)

\* Mutant of noHistoryResult: no transaction history scored as zero risk.
noHistoryResultZero(start) ==
    [ start EXCEPT !.RealTimeFlags = << RealTimeFlag("no_history", "") >>,
                   !.RiskScore = 0,
                   !.Confidence = 100 ]

\* analyzeAddress on an empty list: the floor result, returned at once.
noHistoryResult(start) ==
    [ start EXCEPT !.RealTimeFlags = << RealTimeFlag("no_history", "") >>,
                   !.RiskScore = 100,
                   !.Confidence = 100 ]

\* analyzeAddress.  answer is what the explorer answered: "neterr" (the
\* request or the decoding failed), "notok" (status "0", no transactions
\* found), "failed" (another answer that decodes and whose status is not
\* "1": status "0", message "NOTOK", no result array) or "ok" with the list t.  now is the wall clock; order and nodeOrder are the
\* orders in which the maps interactions and fromTo are ranged over.
analyzeAddress(address, answer, t, now, order, nodeOrder) ==
    LET transactions == IF answer = "ok" THEN t ELSE <<>>
        start == [ status            |-> "ok",
                   Address           |-> address,
                   RiskScore         |-> 0,
                   Confidence        |-> 0,
                   BehavioralFlags   |-> <<>>,
                   StatisticalScores |-> [ BenfordScore |-> 0, VelocityScore |-> 0,
                                           EntropyScore |-> 0, ClusteringScore |-> 0,
                                           TemporalAnomaly |-> 0 ],
                   RealTimeFlags     |-> <<>>,
                   Recommendations   |-> <<>>,
                   DetailedAnalysis  |-> emptyMap ]
        labels == checkEtherscanLabels(address)
        measured == [ start EXCEPT
                        !.BehavioralFlags =
                            analyzeBehavioralPatterns(transactions, now, order, nodeOrder),
                        !.StatisticalScores = performStatisticalAnalysis(transactions),
                        !.RealTimeFlags =
                            (IF labels # "" THEN << RealTimeFlag("label", labels) >> ELSE <<>>)
                              \o checkRealTimeRisks(transactions) ]
        scored == [ measured EXCEPT
                        !.RiskScore = calculateFinalRiskScore(measured)[1],
                        !.Confidence = calculateFinalRiskScore(measured)[2] ]
    IN  IF answer = "neterr" THEN [status |-> "error"]
        ELSE IF Len(transactions) = 0
        THEN noHistoryResult(start)
        ELSE IF analyzeAddressPanics(transactions) THEN [status |-> "panic"]
        ELSE [ scored EXCEPT
                 !.Recommendations = generateRecommendations(scored),
                 !.DetailedAnalysis =
                     [ transaction_count   |-> Len(transactions),
                       first_tx_time       |-> ParseInt(transactions[Len(transactions)].TimeStamp),
                       last_tx_time        |-> ParseInt(transactions[1].TimeStamp),
                       unique_interactions |-> Cardinality(interactionsOf(transactions)),
                       total_volume_eth    |-> SumSeq([i \in 1..Len(transactions) |->
                                                          transactions[i].Value]) ] ]

\* The severities of a flag list, largest first.
RECURSIVE severitiesDescending(_)
severitiesDescending(S) ==
    IF S = {} THEN <<>>
    ELSE LET m == CHOOSE x \in S : \A y \in S : y <= x
         IN  <<m>> \o severitiesDescending(S \ {m})

RECURSIVE concat(_)
concat(ss) == IF ss = <<>> THEN <<>> ELSE Head(ss) \o concat(Tail(ss))

reverse(s) == [i \in 1..Len(s) |-> s[Len(s) + 1 - i]]

\* sort.Slice by decreasing severity, as displayResults calls it on
\* analysis.BehavioralFlags.  sort.Slice is not stable: tiesKept tells whether
\* flags of equal severity keep their order or come out reversed.
sortBySeverity(flags, tiesKept) ==
    LET group(sev) == SelectSeq(flags, LAMBDA f : f.Severity = sev)
        sevs == severitiesDescending({flags[i].Severity : i \in 1..Len(flags)})
    IN  concat([i \in 1..Len(sevs) |->
                  IF tiesKept THEN group(sevs[i]) ELSE reverse(group(sevs[i]))])

----------------------------------------------------------------------------
(* The one-shot analysis: the explorer's list, analyzeAddress, display     *)

\* The address under analysis (runAnalysis lower-cases it).
Subject == "0xa"

\* The kinds of transaction the explorer's list is made of.  Delta is the
\* number of seconds the transaction lies before the one listed above it.
TxKinds ==
    { \* the subject pays 6 ether to 0xb, written with an upper-case letter
      [ From |-> "0xa", To |-> "0xB", Value |-> 60, GasPrice |-> 1, Delta |-> 30,
        IsError |-> "0", Input |-> [len |-> 2, methodId |-> ""], ContractAddress |-> "" ],
      \* a failed call to 0xc in the same second
      [ From |-> "0xa", To |-> "0xc", Value |-> 0, GasPrice |-> 1, Delta |-> 0,
        IsError |-> "1", Input |-> [len |-> 138, methodId |-> "0xa9059cbb"],
        ContractAddress |-> "" ],
      \* 0xb pays 3 ether back at ten times the gas price, an hour earlier
      [ From |-> "0xb", To |-> "0xa", Value |-> 30, GasPrice |-> 10, Delta |-> 3600,
        IsError |-> "0", Input |-> [len |-> 2, methodId |-> ""], ContractAddress |-> "" ],
      \* the subject deploys a contract
      [ From |-> "0xa", To |-> "", Value |-> 0, GasPrice |-> 1, Delta |-> 30,
        IsError |-> "0", Input |-> [len |-> 2000, methodId |-> "0x60806040"],
        ContractAddress |-> "0xe" ] }

\* The knowledge bases the analyzer may have loaded.
LoadedAddresses ==
    [Exchanges |-> {"0xa"}, Mixers |-> {"0xc"}, Hackers |-> {"0xb"}, Contracts |-> {"0xe"}]

KnownAddressBases ==
    { [Exchanges |-> {}, Mixers |-> {}, Hackers |-> {}, Contracts |-> {}],
      LoadedAddresses }

\* The time stamp of the newest transaction of a list.
Newest == 11 * 3600 - 1

\* The longest list built one transaction at a time, the length of a run of
\* equal transactions, and the number of transactions that may follow a run.
MaxTxs == 5
BurstLen == 50
MaxAfterBurst == 1

\* The transaction of kind k listed after the list t.
TxAfter(t, k) ==
    [ BlockNumber     |-> IF t = <<>> THEN Newest ELSE t[Len(t)].TimeStamp - k.Delta,
      TimeStamp       |-> IF t = <<>> THEN Newest ELSE t[Len(t)].TimeStamp - k.Delta,
      Hash            |-> Len(t) + 1,
      From            |-> k.From,
      To              |-> k.To,
      Value           |-> k.Value,
      GasPrice        |-> k.GasPrice,
      IsError         |-> k.IsError,
      Input           |-> k.Input,
      ContractAddress |-> k.ContractAddress ]

RECURSIVE Extend(_, _, _)
Extend(t, k, n) == IF n = 0 THEN t ELSE Extend(Append(t, TxAfter(t, k)), k, n - 1)

NoOut == [fn |-> "none"]
NoMonitor == [pc |-> "none"]

Init ==
    /\ knownAddresses \in KnownAddressBases
    /\ txs = <<>>
    /\ response = "none"
    /\ monitor = NoMonitor
    /\ analysis = NoAnalysis
    /\ displayed = FALSE
    /\ p90 = 0
    /\ out = NoOut

\* The address has one more (older) transaction.
FeedAppend ==
    /\ analysis = NoAnalysis
    /\ \/ Len(txs) < MaxTxs
       \/ Len(txs) >= BurstLen /\ Len(txs) < BurstLen + MaxAfterBurst
    /\ \E k \in TxKinds : txs' = Extend(txs, k, 1)
    /\ UNCHANGED <<monitor, knownAddresses, response, analysis, displayed, p90, out>>

\* The address starts with a run of BurstLen transactions of one kind in one
\* second.
FeedBurst ==
    /\ analysis = NoAnalysis
    /\ txs = <<>>
    /\ \E k \in TxKinds : txs' = Extend(txs, [k EXCEPT !.Delta = 0], BurstLen)
    /\ UNCHANGED <<monitor, knownAddresses, response, analysis, displayed, p90, out>>

\* runAnalysis calls analyzeAddress.
Analyze ==
    /\ analysis = NoAnalysis
    /\ \E answer \in {"ok", "notok", "failed", "neterr"} :
       \E now \in {Newest + 60, Newest + 100000} :
       \E order \in Orders(interactionsOf(txs)) :
       \E nodeOrder \in Orders(DOMAIN fromToOf(txs)) :
          /\ response' = answer
          /\ analysis' = analyzeAddress(Subject, answer, txs, now, order, nodeOrder)
    /\ UNCHANGED <<monitor, knownAddresses, txs, displayed, p90, out>>

\* runAnalysis calls displayResults, which sorts analysis.BehavioralFlags in
\* place.  Up to twelve elements sort.Slice sorts by insertion, which keeps
\* the order of equal elements.
Display ==
    /\ analysis.status = "ok"
    /\ ~displayed
    /\ \E tiesKept \in (IF Len(analysis.BehavioralFlags) <= 12 THEN {TRUE} ELSE BOOLEAN) :
          analysis' = [analysis EXCEPT
                         !.BehavioralFlags = sortBySeverity(analysis.BehavioralFlags, tiesKept)]
    /\ displayed' = TRUE
    /\ UNCHANGED <<monitor, knownAddresses, txs, response, p90, out>>

Next == FeedAppend \/ FeedBurst \/ Analyze \/ Display

Spec == Init /\ [][Next]_vars

----------------------------------------------------------------------------
(* The sandwich detector                                                   *)

\* Mutant of sandwichWindow: the middle transaction must come from the
\* sender of the outer two as well.
sandwichWindowSameSender(tx1, tx2, tx3, p) ==
    /\ tx1.GasPrice > int64(p * 5) /\ tx3.GasPrice > int64(p * 5)
    /\ tx2.GasPrice < int64(p * 2)
    /\ EqualFold(tx1.From, tx3.From)
    /\ EqualFold(tx1.From, tx2.From)
    /\ EqualFold(tx1.To, tx2.To) /\ EqualFold(tx2.To, tx3.To)

\* The three nested conditions of detectSandwichAttacks on one window of
\* three consecutive transactions, for gas prices that fit int64.  p90*5
\* and p90*2 are int64 products.
sandwichWindow(tx1, tx2, tx3, p) ==
    /\ tx1.GasPrice > int64(p * 5) /\ tx3.GasPrice > int64(p * 5)
    /\ tx2.GasPrice < int64(p * 2)
    /\ EqualFold(tx1.From, tx3.From)
    /\ EqualFold(tx1.To, tx2.To) /\ EqualFold(tx2.To, tx3.To)

\* detectSandwichAttacks calls Int64 on the nil *big.Int of a gas price that
\* is no decimal number, in the first window that holds one.
detectSandwichAttacksPanics(t) ==
    Len(t) >= 3 /\ \E i \in 1..Len(t) : ~SetStringOk(t[i].GasPrice)

\* detectSandwichAttacks: one sandwich_attack flag per window that meets the
\* conditions, in feed order; the flag carries the hash of the front
\* transaction.
detectSandwichAttacks(t, p) ==
    LET windows == [i \in 1..Max(Len(t) - 2, 0) |-> i]
        hit(i) == sandwichWindow(t[i], t[i + 1], t[i + 2], p)
    IN  MapSeq(SelectSeq(windows, hit),
               LAMBDA i : Flag("sandwich_attack", 900, t[i].Hash, ""))

----------------------------------------------------------------------------
(* The real-time monitor                                                   *)

Gwei == 1000000000
AlertThreshold == 600

\* getRecentTransactions: the ten newest transactions of the list the
\* explorer holds (chain, newest first), nothing for a status other than
\* "1", an error for a failed request.
getRecentTransactions(answer, chain) ==
    IF answer = "neterr" THEN [err |-> TRUE, txs |-> <<>>]
    ELSE IF answer = "notok" THEN [err |-> FALSE, txs |-> <<>>]
    ELSE [err |-> FALSE, txs |-> SubSeq(chain, 1, Min(Len(chain), 10))]

\* checkNewTransactions: with no last block number the recent transactions,
\* the last block number left as it is; else the transactions from the block
\* after the last one on, oldest first, and the last block number moved to
\* the block of the newest of them.
checkNewTransactions(m, answer, chain) ==
    IF m.LastBlockNumber = <<>>
    THEN [m |-> m] @@ getRecentTransactions(answer, chain)
    ELSE LET nextBlock == m.LastBlockNumber[1] + 1
             result == reverse(SelectSeq(chain, LAMBDA tx : tx.BlockNumber >= nextBlock))
         IN  IF answer = "neterr" THEN [m |-> m, err |-> TRUE, txs |-> <<>>]
             ELSE IF answer = "notok" \/ Len(result) = 0
             THEN [m |-> m, err |-> FALSE, txs |-> <<>>]
             ELSE [m |-> [m EXCEPT !.LastBlockNumber = << result[Len(result)].BlockNumber >>],
                   err |-> FALSE, txs |-> result]

\* The riskScore analyzeTransaction adds up for one transaction, in
\* thousandths.
localRisk(tx) ==
    (IF tx.Value > riskThresholds.HighValueThreshold * Ether THEN 300 ELSE 0)
      + (IF tx.IsError = "1" THEN 200 ELSE 0)
      + (IF ToLower(tx.To) \in knownAddresses.Mixers THEN 500 ELSE 0)
      + (IF ToLower(tx.To) \in knownAddresses.Hackers THEN 800 ELSE 0)
      + (IF tx.Input.len >= 10 /\ tx.Input.methodId \in DOMAIN suspiciousPatterns
         THEN suspiciousPatterns[tx.Input.methodId] ELSE 0)
      + (IF tx.GasPrice \div Gwei > 200 \/ (tx.GasPrice \div Gwei = 200 /\ tx.GasPrice % Gwei > 0)
         THEN 200 ELSE 0)

\* The alertType analyzeTransaction ends with: the last of the checks that
\* set it.
alertTypeOf(tx) ==
    IF tx.Input.len >= 10 /\ tx.Input.methodId \in DOMAIN suspiciousPatterns
    THEN "suspicious_method"
    ELSE IF ToLower(tx.To) \in knownAddresses.Hackers THEN "hacker_interaction"
    ELSE IF ToLower(tx.To) \in knownAddresses.Mixers THEN "mixer_interaction"
    ELSE IF tx.Value > riskThresholds.HighValueThreshold * Ether THEN "high_value"
    ELSE "normal"

\* analyzeTransaction hands the nil *big.Int of a value or gas price that is
\* no decimal number to big.Float.SetInt, which dereferences it.
analyzeTransactionPanics(tx) == ~SetStringOk(tx.Value) \/ ~SetStringOk(tx.GasPrice)

\* The transactions of newTxs the loop of runRealTimeMonitor gets through:
\* those before the first one analyzeTransaction panics on.
RECURSIVE analysedPrefix(_)
analysedPrefix(newTxs) ==
    IF newTxs = <<>> \/ analyzeTransactionPanics(Head(newTxs)) THEN <<>>
    ELSE << Head(newTxs) >> \o analysedPrefix(Tail(newTxs))

\* analyzeTransaction: the alerts (none or one) for one transaction.
analyzeTransaction(tx) ==
    IF localRisk(tx) >= AlertThreshold
    THEN << [RiskScore |-> localRisk(tx), AlertType |-> alertTypeOf(tx), TxHash |-> tx.Hash] >>
    ELSE <<>>

\* The alerts of the loop over newTxs in runRealTimeMonitor, in order.
RECURSIVE alertsOf(_)
alertsOf(newTxs) ==
    IF newTxs = <<>> THEN <<>>
    ELSE analyzeTransaction(Head(newTxs)) \o alertsOf(Tail(newTxs))

\* displaySummary: the total, the count per alert type and the first alert
\* of the highest risk score.
displaySummary(m) ==
    LET history == m.AlertHistory
        types == {history[i].AlertType : i \in 1..Len(history)}
        highest == CHOOSE i \in 1..Len(history) :
                      /\ \A j \in 1..Len(history) : history[j].RiskScore <= history[i].RiskScore
                      /\ \A j \in 1..(i - 1) : history[j].RiskScore < history[i].RiskScore
    IN  [ total |-> Len(history),
          breakdown |-> [ty \in types |->
                            Cardinality({i \in 1..Len(history) : history[i].AlertType = ty})],
          highestRisk |-> IF Len(history) > 0 THEN << history[highest] >> ELSE <<>> ]

\* analyzeAddress of the monitor's program: a stub with a fixed result.
analyzeAddressStub(address) ==
    [ status |-> "ok", Address |-> address, RiskScore |-> 500, Confidence |-> 0,
      BehavioralFlags |-> <<>>, RealTimeFlags |-> <<>>, Recommendations |-> <<>>,
      DetailedAnalysis |-> [transaction_count |-> 100, unique_interactions |-> 25] ]

----------------------------------------------------------------------------
(* Claims about the one-shot analysis (specification Spec)                 *)

\* analyzeAddress has returned a result to its caller.
Returned == analysis.status = "ok"

\* The list analyzeAddress worked on in the call that returned.
Analysed == IF response = "ok" THEN txs ELSE <<>>

\* C1: for every transaction list and every set of real-time flags, the
\* result analyzeAddress returns has its risk score and its confidence
\* between 0 and 1.
C1_ScoreAndConfidenceInUnitInterval ==
    Returned =>
        /\ 0 <= analysis.RiskScore /\ analysis.RiskScore <= 1000
        /\ 0 <= analysis.Confidence /\ analysis.Confidence <= 1000

\* A result for a non-empty list whose weighted average was above 1 and came
\* out as 1.
C1_Witness ==
    /\ Returned
    /\ Len(Analysed) > 0
    /\ finalScore(analysis) > 1000
    /\ analysis.RiskScore = 1000

\* The largest number of transactions of t in one hour bucket.
MaxPerHour(t) ==
    LET bucket(h) == Cardinality({i \in 1..Len(t) : ParseInt(t[i].TimeStamp) \div 3600 = h})
        counts == {bucket(ParseInt(t[i].TimeStamp) \div 3600) : i \in 1..Len(t)}
    IN  CHOOSE m \in counts : \A c \in counts : c <= m

\* C2: every behavioral flag reaches the aggregator with a severity between
\* 0 and 1, and the severity of a high_velocity flag is
\* min(maxPerHour / threshold, 1).
C2_SeverityInUnitInterval ==
    Returned =>
        \A i \in 1..Len(analysis.BehavioralFlags) :
            LET f == analysis.BehavioralFlags[i]
            IN  /\ 0 <= f.Severity /\ f.Severity <= 1000
                /\ f.Type = "high_velocity" =>
                     f.Severity = Min((MaxPerHour(Analysed) * 1000)
                                         \div riskThresholds.VelocityThreshold, 1000)

\* A flag list in order of non-increasing severity.
SortedBySeverity(flags) ==
    \A i \in 1..Len(flags) : \A j \in 1..Len(flags) :
        i < j => flags[i].Severity >= flags[j].Severity

\* C3: the behavioral flags of the result returned to the caller are in
\* order of non-increasing severity (flags of equal severity in the order
\* the extractors produced them, which is the order of the returned list).
C3_ReturnedFlagsSorted ==
    (Returned /\ ~displayed) => SortedBySeverity(analysis.BehavioralFlags)

\* C4: when the feed yields an empty list, analyzeAddress returns a result
\* with the risk score at the floor 0.1 and a confidence below 0.2.
C4_EmptyListFloor ==
    (response \in {"ok", "notok"} /\ Analysed = <<>>) =>
        /\ Returned
        /\ analysis.RiskScore = 100
        /\ analysis.Confidence < 200

\* analyzeAddress has answered an empty list of a successful request.
C4_Witness ==
    /\ response = "ok"
    /\ txs = <<>>
    /\ Returned
    /\ analysis.RiskScore = 100

\* C5: for a non-empty list the confidence is
\* 0.5 * min(flagCount / 5, 1) + 0.5 * min(transactionCount / 50, 1), with
\* transactionCount the number of transactions analysed in the call.
C5_ConfidenceFormula ==
    (Returned /\ Len(Analysed) > 0) =>
        analysis.Confidence =
            (Min((Len(analysis.BehavioralFlags) * 1000) \div 5, 1000) * 500) \div 1000
              + (Min((Len(Analysed) * 1000) \div 50, 1000) * 500) \div 1000

----------------------------------------------------------------------------
(* The graph functions applied to lists of transfers (specification       *)
(* SpecGraph): analyzeInteractionPatterns with detectCircularPattern, and  *)
(* calculateClusteringScore.                                               *)

\* The longest list of transfers.
MaxGraphTxs == 4

\* The transfers a list is made of: the triangle 0xa -> 0xb -> 0xc -> 0xa
\* (0xb once written with an upper-case letter), a chord, a fourth address
\* and a contract creation.
GraphKinds ==
    LET transfer(from, to) ==
            [ From |-> from, To |-> to, Value |-> 10, GasPrice |-> 1, Delta |-> 60,
              IsError |-> "0", Input |-> [len |-> 2, methodId |-> ""],
              ContractAddress |-> IF to = "" THEN "0xe" ELSE "" ]
    IN  { transfer("0xa", "0xB"), transfer("0xb", "0xc"), transfer("0xc", "0xa"),
          transfer("0xa", "0xc"), transfer("0xc", "0xd"), transfer("0xa", "") }

InitGraph ==
    /\ knownAddresses = LoadedAddresses
    /\ txs = <<>>
    /\ response = "none"
    /\ monitor = NoMonitor
    /\ analysis = NoAnalysis
    /\ displayed = FALSE
    /\ p90 = 0
    /\ out = NoOut

\* The list has one more transfer.
GraphAppend ==
    /\ out = NoOut
    /\ Len(txs) < MaxGraphTxs
    /\ \E k \in GraphKinds : txs' = Extend(txs, k, 1)
    /\ UNCHANGED <<monitor, knownAddresses, response, analysis, displayed, p90, out>>

\* analyzeInteractionPatterns is applied to the list.
ApplyInteractionPatterns ==
    /\ out = NoOut
    /\ \E order \in Orders(interactionsOf(txs)) :
       \E nodeOrder \in Orders(DOMAIN fromToOf(txs)) :
          out' = [fn |-> "analyzeInteractionPatterns",
                  flags |-> analyzeInteractionPatterns(txs, order, nodeOrder)]
    /\ UNCHANGED <<monitor, knownAddresses, txs, response, analysis, displayed, p90>>

\* calculateClusteringScore is applied to the list.
ApplyClusteringScore ==
    /\ out = NoOut
    /\ out' = [fn |-> "calculateClusteringScore", score |-> calculateClusteringScore(txs)]
    /\ UNCHANGED <<monitor, knownAddresses, txs, response, analysis, displayed, p90>>

NextGraph == GraphAppend \/ ApplyInteractionPatterns \/ ApplyClusteringScore

SpecGraph == InitGraph /\ [][NextGraph]_vars

\* The from -> to graph of a list: the pairs <<sender, receiver>> of its
\* transactions with both addresses present, addresses in lower case.
EdgesOf(t) ==
    {<<ToLower(t[i].From), ToLower(t[i].To)>> :
        i \in {j \in 1..Len(t) : t[j].From # "" /\ t[j].To # ""}}

\* b can be reached from a along at least one and at most n edges of E.
RECURSIVE Reaches(_, _, _, _)
Reaches(E, a, b, n) ==
    /\ n > 0
    /\ \/ <<a, b>> \in E
       \/ \E e \in E : e[1] = a /\ Reaches(E, e[2], b, n - 1)

\* The graph E has a directed cycle.
HasDirectedCycle(E) ==
    \E e \in E : Reaches(E, e[1], e[1], Cardinality(E))

CircularFlags(flags) == SelectSeq(flags, LAMBDA f : f.Type = "circular_pattern")

\* C6: for a list whose from -> to graph has a directed cycle (the three
\* transactions A -> B, B -> C, C -> A included) analyzeInteractionPatterns
\* emits the circular_pattern flag exactly once, and for a list whose graph
\* has none it emits no circular_pattern flag.
C6_CircularPatternIffCycle ==
    out.fn = "analyzeInteractionPatterns" =>
        Len(CircularFlags(out.flags)) = IF HasDirectedCycle(EdgesOf(txs)) THEN 1 ELSE 0

\* The addresses of the graph E and the addresses joined to n by an edge
\* of either direction.
NodesOf(E) == {e[1] : e \in E} \cup {e[2] : e \in E}
Joined(E, n) == {m \in NodesOf(E) : <<n, m>> \in E \/ <<m, n>> \in E}

\* E is a triangle among three addresses.
IsTriangle(E) ==
    /\ Cardinality(NodesOf(E)) = 3
    /\ \A n \in NodesOf(E) : Joined(E, n) = NodesOf(E) \ {n}

\* The local clustering coefficient of n as <<joined pairs, pairs>> of its
\* neighbours, and the nodes that have at least two neighbours.
Coefficient(E, n) ==
    LET pairs == {p \in SUBSET Joined(E, n) : Cardinality(p) = 2}
    IN  <<Cardinality({p \in pairs : \E x \in p : \E y \in p : x # y /\ y \in Joined(E, x)}),
          Cardinality(pairs)>>
Qualifying(E) == {n \in NodesOf(E) : Cardinality(Joined(E, n)) >= 2}

\* rest is the sum of the coefficients of the nodes of Q.
RECURSIVE IsMeanOver(_, _, _)
IsMeanOver(E, Q, rest) ==
    IF Q = {} THEN rest[1] = 0
    ELSE LET n == CHOOSE x \in Q : TRUE
             c == Coefficient(E, n)
         IN  IsMeanOver(E, Q \ {n}, addFraction(rest, <<0 - c[1], c[2]>>))

\* C9: for transactions forming a triangle among three addresses every local
\* coefficient is 1 and calculateClusteringScore returns 1.0; the score is
\* the mean of the local coefficients of the nodes with at least two
\* neighbours, a node with fewer never contributing; and the score is 0 when
\* no node has two neighbours.
C9_ClusteringScore ==
    out.fn = "calculateClusteringScore" =>
        LET E == EdgesOf(txs)
            Q == Qualifying(E)
        IN  /\ IsTriangle(E) =>
                 /\ out.score = <<1, 1>>
                 /\ \A n \in NodesOf(E) :
                       LET c == localCoefficient(neighborsMap(txs), n)
                       IN  c[1] = c[2] /\ c[2] > 0
            /\ clusteringNodes(neighborsMap(txs)) = Q
            /\ Q = {} => out.score = <<0, 1>>
            /\ Q # {} => IsMeanOver(E, Q, <<out.score[1] * Cardinality(Q), out.score[2]>>)

\* calculateClusteringScore has scored the triangle 0xa, 0xb, 0xc.
C9_Witness ==
    /\ out.fn = "calculateClusteringScore"
    /\ IsTriangle(EdgesOf(txs))
    /\ Len(txs) = 3
    /\ out.score = <<1, 1>>

----------------------------------------------------------------------------
(* analyzeGasAnomalies applied to lists of gas prices (specification       *)
(* SpecGas).                                                               *)

\* The longest list built one transaction at a time and the number of
\* transactions that may follow a run of ten.
MaxGasTxs == 4
MaxAfterRun == 1

\* The gas prices of a list: none, 1, 4, 50 and 200 wei, and -1 for a field
\* that is no decimal number.
GasPrices == {0, 1, 4, 50, 200, -1}

GasKind(g) ==
    [ From |-> "0xa", To |-> "0xb", Value |-> 10, GasPrice |-> g, Delta |-> 60,
      IsError |-> "0", Input |-> [len |-> 2, methodId |-> ""], ContractAddress |-> "" ]

InitGas ==
    /\ knownAddresses = LoadedAddresses
    /\ txs = <<>>
    /\ response = "none"
    /\ monitor = NoMonitor
    /\ analysis = NoAnalysis
    /\ displayed = FALSE
    /\ p90 = 0
    /\ out = NoOut

\* The list has one more transaction.
GasAppend ==
    /\ out = NoOut
    /\ \/ Len(txs) < MaxGasTxs
       \/ Len(txs) >= 10 /\ Len(txs) < 10 + MaxAfterRun
    /\ \E g \in GasPrices : txs' = Extend(txs, GasKind(g), 1)
    /\ UNCHANGED <<monitor, knownAddresses, response, analysis, displayed, p90, out>>

\* The list starts with ten transactions at one gas price.
GasRun ==
    /\ out = NoOut
    /\ txs = <<>>
    /\ \E g \in {1, 50} : txs' = Extend(txs, GasKind(g), 10)
    /\ UNCHANGED <<monitor, knownAddresses, response, analysis, displayed, p90, out>>

\* analyzeGasAnomalies is applied to the list.
ApplyGasAnomalies ==
    /\ out = NoOut
    /\ out' = IF analyzeGasAnomaliesPanics(txs)
              THEN [fn |-> "analyzeGasAnomalies", panics |-> TRUE, flags |-> <<>>]
              ELSE [fn |-> "analyzeGasAnomalies", panics |-> FALSE,
                    flags |-> analyzeGasAnomalies(txs)]
    /\ UNCHANGED <<monitor, knownAddresses, txs, response, analysis, displayed, p90>>

NextGas == GasAppend \/ GasRun \/ ApplyGasAnomalies

SpecGas == InitGas /\ [][NextGas]_vars

\* The transactions of t whose gas price is above the mean of the positive
\* gas prices times the multiplier: g > (total / count) * multiplier, as
\* g * count * 1000 > total * multiplier with the multiplier in thousandths.
AboveMeanTimesMultiplier(t) ==
    LET positive == {i \in 1..Len(t) : t[i].GasPrice > 0}
        total == SumSeq([i \in 1..Len(t) |-> IF i \in positive THEN t[i].GasPrice ELSE 0])
    IN  {i \in positive :
            t[i].GasPrice * Cardinality(positive) * 1000
               > total * riskThresholds.GasAnomalyMultiplier}

\* C7: analyzeGasAnomalies emits exactly one gas_anomaly flag for each
\* transaction whose gas price is above the mean of the positive gas prices
\* times gasAnomalyMultiplier, and no other flag (for gas prices that are
\* decimal numbers).
C7_GasAnomalyPerOutlier ==
    (out.fn = "analyzeGasAnomalies" /\ \A i \in 1..Len(txs) : SetStringOk(txs[i].GasPrice)) =>
        /\ ~out.panics
        /\ \A i \in 1..Len(txs) :
              Cardinality({k \in 1..Len(out.flags) : out.flags[k].TxHash = txs[i].Hash})
                 = IF i \in AboveMeanTimesMultiplier(txs) THEN 1 ELSE 0
        /\ \A k \in 1..Len(out.flags) : out.flags[k].Type = "gas_anomaly"

\* The example of C7 alone: ten transactions at 50 and one at 200 give
\* exactly one flag, for the one at 200.
C7_TenAtFiftyOneAtTwoHundred ==
    (/\ out.fn = "analyzeGasAnomalies"
     /\ Len(txs) = 11
     /\ \A i \in 1..10 : txs[i].GasPrice = 50
     /\ txs[11].GasPrice = 200)
        => ~out.panics /\ Len(out.flags) = 1 /\ out.flags[1].TxHash = txs[11].Hash

----------------------------------------------------------------------------
(* detectSandwichAttacks applied to short lists (specification             *)
(* SpecSandwich).                                                          *)

\* The longest list.
MaxSandwichTxs == 4

\* The transactions of a list: front and back runs at a high gas price from
\* 0xa (also written 0xA, to 0xC) or from 0xb, victims at a low gas price
\* from another or the same sender or to another contract, one at a gas
\* price in between and one whose gas price is no number.
SandwichKinds ==
    LET call(from, to, g) ==
            [ From |-> from, To |-> to, Value |-> 10, GasPrice |-> g, Delta |-> 0,
              IsError |-> "0", Input |-> [len |-> 138, methodId |-> "0x38ed1739"],
              ContractAddress |-> "" ]
    IN  { call("0xa", "0xc", 11), call("0xA", "0xC", 11), call("0xb", "0xc", 11),
          call("0xb", "0xc", 1), call("0xa", "0xc", 1), call("0xb", "0xb", 1),
          call("0xb", "0xc", 3), call("0xb", "0xc", -1) }

\* The 90th percentiles handed to the detector.
Percentiles == {1, 2}

InitSandwich ==
    /\ knownAddresses = LoadedAddresses
    /\ txs = <<>>
    /\ response = "none"
    /\ monitor = NoMonitor
    /\ analysis = NoAnalysis
    /\ displayed = FALSE
    /\ p90 = 0
    /\ out = NoOut

\* The list has one more transaction.
SandwichAppend ==
    /\ out = NoOut
    /\ Len(txs) < MaxSandwichTxs
    /\ \E k \in SandwichKinds : txs' = Extend(txs, k, 1)
    /\ UNCHANGED <<monitor, knownAddresses, response, analysis, displayed, p90, out>>

\* detectSandwichAttacks is applied to the list and a 90th percentile.
ApplySandwich ==
    /\ out = NoOut
    /\ \E p \in Percentiles :
          /\ p90' = p
          /\ out' = IF detectSandwichAttacksPanics(txs)
                    THEN [fn |-> "detectSandwichAttacks", panics |-> TRUE, flags |-> <<>>]
                    ELSE [fn |-> "detectSandwichAttacks", panics |-> FALSE,
                          flags |-> detectSandwichAttacks(txs, p)]
    /\ UNCHANGED <<monitor, knownAddresses, txs, response, analysis, displayed>>

NextSandwich == SandwichAppend \/ ApplySandwich

SpecSandwich == InitSandwich /\ [][NextSandwich]_vars

\* The detector has returned flags for the list of the state.
SandwichApplied == out.fn = "detectSandwichAttacks" /\ ~out.panics

\* The window starting at the i-th transaction has a flag.
Flagged(i) == \E k \in 1..Len(out.flags) : out.flags[k].TxHash = txs[i].Hash

\* The detector applied to the list t flags the window starting at i.
FlagsWindow(t, i) ==
    \E f \in Range(detectSandwichAttacks(t, p90)) : f.TxHash = t[i].Hash

\* The conditions of the claim on the window A, B, C starting at i.
SandwichConditions(i) ==
    LET A == txs[i]
        B == txs[i + 1]
        C == txs[i + 2]
    IN  /\ A.GasPrice > 5 * p90 /\ C.GasPrice > 5 * p90 /\ B.GasPrice < 2 * p90
        /\ ToLower(A.From) = ToLower(C.From)
        /\ ToLower(A.To) = ToLower(B.To) /\ ToLower(B.To) = ToLower(C.To)

SandwichAddresses == {"0xa", "0xA", "0xb", "0xc", "0xC"}

----------------------------------------------------------------------------
(* The monitor's loop (specification SpecMonitor).  txs is the list the    *)
(* explorer holds for the address, newest first.                           *)

\* The longest list of the explorer and the number of ticks of a run.
MaxChain == 3
MaxTicks == 3

\* A transfer to the address whose value field is no decimal number.
MalformedKind ==
    [ From |-> "0xb", To |-> "0xa", Value |-> -1, GasPrice |-> 1, Delta |-> 0,
      IsError |-> "0", Input |-> [len |-> 2, methodId |-> ""], ContractAddress |-> "" ]

\* The transaction of kind k mined d blocks after the newest of t.
TxNew(t, k, d) ==
    [ BlockNumber     |-> IF t = <<>> THEN Newest ELSE t[1].BlockNumber + d,
      TimeStamp       |-> IF t = <<>> THEN Newest ELSE t[1].BlockNumber + d,
      Hash            |-> Len(t) + 1,
      From            |-> k.From,
      To              |-> k.To,
      Value           |-> k.Value,
      GasPrice        |-> k.GasPrice,
      IsError         |-> k.IsError,
      Input           |-> k.Input,
      ContractAddress |-> k.ContractAddress ]

InitMonitor ==
    /\ knownAddresses \in KnownAddressBases
    /\ txs \in {<<>>} \cup {<< TxNew(<<>>, k, 0) >> : k \in TxKinds}
    /\ response = "none"
    /\ monitor = [ pc |-> "start", LastBlockNumber |-> <<>>, AlertHistory |-> <<>>,
                   ticks |-> 0, delivered |-> <<>>, summary |-> <<>>,
                   signalled |-> FALSE, riskUpdates |-> <<>>, startChain |-> 0 ]
    /\ analysis = NoAnalysis
    /\ displayed = FALSE
    /\ p90 = 0
    /\ out = NoOut

\* runRealTimeMonitor up to the loop: the initial block number, if the
\* request for the recent transactions brings any, and the initial analysis.
\* startChain notes how many transactions were mined before.
MonitorStart ==
    /\ monitor.pc = "start"
    /\ \E answer \in {"ok", "notok", "neterr"} :
          LET initialTxs == getRecentTransactions(answer, txs)
          IN  /\ response' = answer
              /\ monitor' = [monitor EXCEPT
                    !.pc = "loop",
                    !.startChain = Len(txs),
                    !.LastBlockNumber =
                        IF ~initialTxs.err /\ Len(initialTxs.txs) > 0
                        THEN << initialTxs.txs[1].BlockNumber >>
                        ELSE monitor.LastBlockNumber]
    /\ analysis' = analyzeAddressStub(Subject)
    /\ UNCHANGED <<knownAddresses, txs, displayed, p90, out>>

\* A transaction of the address is mined, in the block of the newest one or
\* in the next.
Mined ==
    /\ monitor.pc \in {"start", "loop"}
    /\ Len(txs) < MaxChain
    /\ \E k \in TxKinds \cup {MalformedKind} : \E d \in {0, 1} :
          txs' = << TxNew(txs, k, d) >> \o txs
    /\ UNCHANGED <<monitor, knownAddresses, response, analysis, displayed, p90, out>>

\* One tick of the loop on an answer of the explorer: checkNewTransactions,
\* analyzeTransaction on every transaction it brings, the alerts appended to
\* AlertHistory, and, if it brought any, the analysis run again and
\* displayRiskUpdate called with the new analysis and initialAnalysis, the
\* one made before the first tick.  A panic of analyzeTransaction ends the
\* program where it happens.  delivered logs what each tick's check brought,
\* riskUpdates the calls of displayRiskUpdate, each analysis with the tick
\* it was made at.
TickOf(answer) ==
    LET checked == checkNewTransactions(monitor, answer, txs)
        analysed == analysedPrefix(checked.txs)
        updatedAnalysis == [ madeAt |-> monitor.ticks + 1,
                             RiskScore |-> analyzeAddressStub(Subject).RiskScore ]
        initialAnalysis == [ madeAt |-> 0, RiskScore |-> analysis.RiskScore ]
    IN  /\ response' = answer
        /\ monitor' = [checked.m EXCEPT
              !.pc = IF Len(analysed) < Len(checked.txs) THEN "crashed" ELSE "loop",
              !.ticks = monitor.ticks + 1,
              !.delivered = Append(monitor.delivered,
                                   MapSeq(checked.txs, LAMBDA tx : tx.Hash)),
              !.AlertHistory = monitor.AlertHistory \o alertsOf(analysed),
              !.riskUpdates =
                  IF Len(checked.txs) > 0 /\ Len(analysed) = Len(checked.txs)
                  THEN Append(monitor.riskUpdates,
                              [current |-> updatedAnalysis, previous |-> initialAnalysis])
                  ELSE monitor.riskUpdates]
        /\ UNCHANGED <<knownAddresses, txs, analysis, displayed, p90, out>>

\* The ticker fires: one tick of the loop, whatever the explorer answers.
Tick ==
    /\ monitor.pc = "loop"
    /\ monitor.ticks < MaxTicks
    /\ \E answer \in {"ok", "notok", "neterr"} : TickOf(answer)

\* A tick whose request succeeds and brings transactions.
Poll ==
    /\ monitor.pc = "loop"
    /\ monitor.ticks < MaxTicks
    /\ checkNewTransactions(monitor, "ok", txs).txs # <<>>
    /\ TickOf("ok")

\* SIGINT or SIGTERM is delivered to the process once signal.Notify has
\* registered sigChan: the signal waits in the channel.
Interrupt ==
    /\ monitor.pc = "loop"
    /\ ~monitor.signalled
    /\ monitor' = [monitor EXCEPT !.signalled = TRUE]
    /\ UNCHANGED <<knownAddresses, txs, response, analysis, displayed, p90, out>>

\* The loop's case <-sigChan: displaySummary, and the monitor returns.
Signal ==
    /\ monitor.pc = "loop"
    /\ monitor.signalled
    /\ monitor' = [monitor EXCEPT !.pc = "stopped", !.summary = << displaySummary(monitor) >>]
    /\ UNCHANGED <<knownAddresses, txs, response, analysis, displayed, p90, out>>

NextMonitor == MonitorStart \/ Mined \/ Tick \/ Interrupt \/ Signal

SpecMonitor == InitMonitor /\ [][NextMonitor]_vars

\* The loop takes the next case of its select whenever one is ready, and a
\* signal waiting in sigChan keeps its case ready until it is taken.
SpecMonitorFair ==
    SpecMonitor /\ WF_vars(Tick) /\ WF_vars(Signal)

\* The monitor with an explorer whose requests in the loop all succeed: the
\* ticker fires every 30 seconds, so a tick that would bring transactions
\* is taken.
NextPoll == MonitorStart \/ Mined \/ Poll

SpecPollFair ==
    InitMonitor /\ [][NextPoll]_vars /\ WF_vars(MonitorStart) /\ WF_vars(Poll)

\* The transactions the ticks have observed, by hash, and those of them with
\* a local risk of at least 0.6.
Observed == UNION {Range(monitor.delivered[i]) : i \in 1..Len(monitor.delivered)}
TxOf(h) == txs[CHOOSE i \in 1..Len(txs) : txs[i].Hash = h]
RiskyObserved == {h \in Observed : localRisk(TxOf(h)) >= 600}

\* C10: each newly observed transaction whose local risk is at least 0.6 is
\* in the alert history exactly once and no other transaction is, so that
\* the alert count the summary shows is the number of such transactions.
C10_OneAlertPerRiskyTransaction ==
    monitor.pc \in {"loop", "stopped"} =>
        /\ \A h \in Observed :
              Cardinality({i \in 1..Len(monitor.AlertHistory) :
                              monitor.AlertHistory[i].TxHash = h})
                 = IF h \in RiskyObserved THEN 1 ELSE 0
        /\ Len(monitor.AlertHistory) = Cardinality(RiskyObserved)
        /\ monitor.pc = "stopped" => monitor.summary[1].total = Cardinality(RiskyObserved)

\* The same while the monitor holds a last block number.
C10_WithLastBlockNumber ==
    (monitor.pc \in {"loop", "stopped"} /\ monitor.LastBlockNumber # <<>>) =>
        /\ \A h \in Observed :
              Cardinality({i \in 1..Len(monitor.AlertHistory) :
                              monitor.AlertHistory[i].TxHash = h})
                 = IF h \in RiskyObserved THEN 1 ELSE 0
        /\ Len(monitor.AlertHistory) = Cardinality(RiskyObserved)

\* The summary displaySummary printed is that of the alert history: its
\* total is the length of the history, the counts per type add up to it, and
\* the highest-risk alert has the largest risk score of the history.
SummaryOfHistory ==
    /\ monitor.pc = "stopped"
    /\ Len(monitor.summary) = 1
    /\ LET summary == monitor.summary[1]
           history == monitor.AlertHistory
           counts == [i \in 1..Len(history) |-> 1]
       IN  /\ summary.total = Len(history)
           /\ \A ty \in DOMAIN summary.breakdown :
                 summary.breakdown[ty]
                    = Cardinality({i \in 1..Len(history) : history[i].AlertType = ty})
           /\ \A i \in 1..Len(history) : history[i].AlertType \in DOMAIN summary.breakdown
           /\ Len(history) > 0 =>
                 /\ Len(summary.highestRisk) = 1
                 /\ summary.highestRisk[1] \in Range(history)
                 /\ \A i \in 1..Len(history) :
                       history[i].RiskScore <= summary.highestRisk[1].RiskScore

\* C11: once the stop signal has been delivered the monitor eventually
\* leaves the polling loop having printed a final summary whose total is the
\* length of the alert history, whose counts per type add up to it and whose
\* highest-risk alert has the maximum risk score of the history.
C11_SignalLeadsToSummary ==
    monitor.signalled ~> SummaryOfHistory

\* The same for the runs in which no transaction with a malformed value or
\* gas price is mined.
C11_WellFormedFeed ==
    (\A i \in 1..Len(txs) : ~analyzeTransactionPanics(txs[i]))
       => (monitor.signalled => (monitor.pc \in {"loop", "stopped"}
                                   /\ (monitor.pc = "stopped" => SummaryOfHistory)))

----------------------------------------------------------------------------
(* analyzeAddress over feeds with malformed fields                         *)

\* A transfer to the address whose gas price is no decimal number.
MalformedGasKind ==
    [ From |-> "0xb", To |-> "0xa", Value |-> 30, GasPrice |-> -1, Delta |-> 30,
      IsError |-> "0", Input |-> [len |-> 2, methodId |-> ""], ContractAddress |-> "" ]

\* The subject pays 1 ether to 0xd.
SecondMixerKind ==
    [ From |-> "0xa", To |-> "0xd", Value |-> 10, GasPrice |-> 1, Delta |-> 30,
      IsError |-> "0", Input |-> [len |-> 2, methodId |-> ""], ContractAddress |-> "" ]

\* The subject calls flashLoan(address,address,uint256,bytes) of 0xe.
FlashLoanKind ==
    [ From |-> "0xa", To |-> "0xe", Value |-> 0, GasPrice |-> 1, Delta |-> 30,
      IsError |-> "0", Input |-> [len |-> 266, methodId |-> "0x5cffe9de"],
      ContractAddress |-> "" ]

\* What the explorer may list for the address.
FeedKinds ==
    TxKinds \cup {MalformedKind, MalformedGasKind, SecondMixerKind, FlashLoanKind}

\* A knowledge base that lists two mixers.
TwoMixers ==
    [Exchanges |-> {}, Mixers |-> {"0xc", "0xd"}, Hackers |-> {}, Contracts |-> {}]

\* The longest list of such a feed.
MaxFeedTxs == 3

InitFeed ==
    /\ knownAddresses \in KnownAddressBases \cup {TwoMixers}
    /\ txs = <<>>
    /\ response = "none"
    /\ monitor = NoMonitor
    /\ analysis = NoAnalysis
    /\ displayed = FALSE
    /\ p90 = 0
    /\ out = NoOut

\* The address has one more (older) transaction.
FeedMined ==
    /\ analysis = NoAnalysis
    /\ Len(txs) < MaxFeedTxs
    /\ \E k \in FeedKinds : txs' = Extend(txs, k, 1)
    /\ UNCHANGED <<monitor, knownAddresses, response, analysis, displayed, p90, out>>

NextFeed == FeedMined \/ Analyze

SpecFeed == InitFeed /\ [][NextFeed]_vars

\* C12: a transaction with a malformed value or gas price never aborts the
\* analysis: analyzeAddress returns a result for every list the feed
\* delivers.
C12_MalformedFieldNeverAborts ==
    (analysis # NoAnalysis /\ response = "ok") => Returned

----------------------------------------------------------------------------
(* generateRecommendations on its own                                      *)

\* Risk scores at and next to the tier thresholds.
ScoreSamples == {0, 199, 200, 201, 399, 400, 401, 599, 600, 601, 799, 800, 801, 1000}

\* The flags analyzeBehavioralPatterns may hand over, with the place of
\* their extractor in its fixed order.
FlagSamples ==
    { [rank |-> 1, flag |-> Flag("high_velocity", 1000, 0, "")],
      [rank |-> 2, flag |-> Flag("rapid_drainage", 900, 0, "")],
      [rank |-> 3, flag |-> Flag("new_address_high_value", 850, 0, "")],
      [rank |-> 4, flag |-> Flag("gas_anomaly", 700, 1, "")],
      [rank |-> 5, flag |-> Flag("mixer_interaction", 850, 0, "0xc")],
      [rank |-> 6, flag |-> Flag("mixer_interaction", 850, 0, "0xd")],
      [rank |-> 7, flag |-> Flag("circular_pattern", 750, 0, "")] }

\* The longest flag list handed to generateRecommendations.
MaxFlags == 3

InitRecommend ==
    /\ knownAddresses \in KnownAddressBases
    /\ txs = <<>>
    /\ response = "none"
    /\ monitor = NoMonitor
    /\ \E score \in ScoreSamples :
          analysis = [ status |-> "ok", RiskScore |-> score, BehavioralFlags |-> <<>>,
                       Recommendations |-> <<>> ]
    /\ displayed = FALSE
    /\ p90 = 0
    /\ out = NoOut

\* One more extractor has left a flag.
AddFlag ==
    /\ out = NoOut
    /\ Len(analysis.BehavioralFlags) < MaxFlags
    /\ \E s \in FlagSamples :
          /\ \A t \in FlagSamples :
                t.flag \in Range(analysis.BehavioralFlags) => t.rank < s.rank
          /\ analysis' = [analysis EXCEPT !.BehavioralFlags = Append(@, s.flag)]
    /\ UNCHANGED <<monitor, knownAddresses, txs, response, displayed, p90, out>>

\* analyzeAddress sets analysis.Recommendations.
ApplyRecommendations ==
    /\ out = NoOut
    /\ analysis' = [analysis EXCEPT !.Recommendations = generateRecommendations(analysis)]
    /\ out' = [fn |-> "generateRecommendations"]
    /\ UNCHANGED <<monitor, knownAddresses, txs, response, displayed, p90>>

NextRecommend == AddFlag \/ ApplyRecommendations

SpecRecommend == InitRecommend /\ [][NextRecommend]_vars

Recommended == out.fn = "generateRecommendations"

\* C13: the first recommendation is the message of the tier of the risk
\* score, the tiers having exclusive lower bounds: above 0.8 critical, above
\* 0.6 high, above 0.4 medium, above 0.2 low, and minimal up to 0.2.
C13_TierExclusiveLowerBounds ==
    Recommended =>
        LET score == analysis.RiskScore
            first == analysis.Recommendations[1]
        IN  /\ Len(analysis.Recommendations) >= 1
            /\ first = "CRITICAL" <=> score > 800
            /\ first = "HIGH RISK" <=> (score > 600 /\ score <= 800)
            /\ first = "MEDIUM RISK" <=> (score > 400 /\ score <= 600)
            /\ first = "LOW RISK" <=> (score > 200 /\ score <= 400)
            /\ first = "MINIMAL RISK" <=> score <= 200

\* A score of exactly 0.8 recommended as high risk.
C13_Witness ==
    /\ Recommended
    /\ analysis.RiskScore = 800
    /\ analysis.Recommendations[1] = "HIGH RISK"

\* C13 as the specification states it, with inclusive lower bounds: 0.8 and
\* above critical, 0.6 and above high, 0.4 and above medium, 0.2 and above
\* low, below 0.2 minimal.
C13_AsStated ==
    Recommended =>
        LET score == analysis.RiskScore
            first == analysis.Recommendations[1]
        IN  /\ Len(analysis.Recommendations) >= 1
            /\ first = "CRITICAL" <=> score >= 800
            /\ first = "HIGH RISK" <=> (score >= 600 /\ score < 800)
            /\ first = "MEDIUM RISK" <=> (score >= 400 /\ score < 600)
            /\ first = "LOW RISK" <=> (score >= 200 /\ score < 400)
            /\ first = "MINIMAL RISK" <=> score < 200

\* The follow-up recommendation of a flag type, "" for a type without one.
followUpOf(type) ==
    CASE type = "mixer_interaction" -> "Consider blockchain analysis tools"
      [] type = "high_velocity" -> "Monitor for potential automated attack patterns"
      [] type = "new_address_high_value" -> "Verify the legitimacy"
      [] OTHER -> ""

FollowUpTypes == {"mixer_interaction", "high_velocity", "new_address_high_value"}

\* The result of an analysis that ran the extractors over a non-empty list.
AnalysedList == Returned /\ response = "ok" /\ Len(txs) > 0

\* C14: after the tier message the recommendations hold exactly one
\* follow-up per distinct flag type present among mixer_interaction,
\* high_velocity and new_address_high_value, however many flags of the type
\* there are, and nothing for any other flag type.
C14_OneFollowUpPerFlagType ==
    AnalysedList =>
        LET recs == analysis.Recommendations
            present == {ty \in FollowUpTypes :
                          \E i \in 1..Len(analysis.BehavioralFlags) :
                             analysis.BehavioralFlags[i].Type = ty}
            tierLen == IF recs[1] = "MINIMAL RISK" THEN 1 ELSE 2
        IN  /\ \A ty \in FollowUpTypes :
                  Cardinality({i \in 1..Len(recs) : recs[i] = followUpOf(ty)})
                     = IF ty \in present THEN 1 ELSE 0
            /\ Len(recs) = tierLen + Cardinality(present)

----------------------------------------------------------------------------
(* loadKnownAddresses and the analyses after it                            *)

TableNames == {"Exchanges", "Mixers", "Hackers", "Contracts"}

\* known_addresses.json: missing, not JSON, or an object holding some of the
\* four tables, each with the entries of LoadedAddresses.
KnownAddressFiles ==
    { [kind |-> "missing", tables |-> {}], [kind |-> "malformed", tables |-> {}] }
      \cup { [kind |-> "object", tables |-> S] : S \in SUBSET TableNames }

\* The knowledge base before loadKnownAddresses: a nil *AddressDB, which
\* every lookup guards against.
NilAddressDB == [Exchanges |-> {}, Mixers |-> {}, Hackers |-> {}, Contracts |-> {}]

\* Mutant of loadKnownAddresses: the error of ReadFile is returned.
loadKnownAddressesReadError(file) ==
    IF file.kind = "missing" THEN [err |-> "not exist", db |-> NilAddressDB]
    ELSE IF file.kind = "malformed" THEN [err |-> "syntax", db |-> NilAddressDB]
    ELSE [ err |-> "nil",
           db  |-> [name \in TableNames |->
                      IF name \in file.tables THEN LoadedAddresses[name] ELSE {}] ]

\* loadKnownAddresses: <<error, knowledge base>>.  A missing file gives four
\* empty maps and no error; json.Unmarshal leaves the map of a table the
\* object does not hold nil, and a nil map reads as an empty one.
loadKnownAddresses(file) ==
    IF file.kind = "missing" THEN [err |-> "nil", db |-> NilAddressDB]
    ELSE IF file.kind = "malformed" THEN [err |-> "syntax", db |-> NilAddressDB]
    ELSE [ err |-> "nil",
           db  |-> [name \in TableNames |->
                      IF name \in file.tables THEN LoadedAddresses[name] ELSE {}] ]

\* What the explorer may list for the address.
KnownKinds == TxKinds \cup {SecondMixerKind, MalformedKind}

\* The longest list analysed after the load.
MaxKnownTxs == 2

InitKnown ==
    /\ knownAddresses = NilAddressDB
    /\ txs = <<>>
    /\ response = "none"
    /\ monitor = NoMonitor
    /\ analysis = NoAnalysis
    /\ displayed = FALSE
    /\ p90 = 0
    /\ out = NoOut

\* runAnalysis and runRealTimeMonitor call loadKnownAddresses first; an error
\* is at most printed.
LoadKnownAddresses ==
    /\ out = NoOut
    /\ \E file \in KnownAddressFiles :
          /\ knownAddresses' = loadKnownAddresses(file).db
          /\ out' = [fn |-> "loadKnownAddresses", file |-> file,
                     err |-> loadKnownAddresses(file).err]
    /\ UNCHANGED <<monitor, txs, response, analysis, displayed, p90>>

\* The address has one more (older) transaction.
KnownMined ==
    /\ analysis = NoAnalysis
    /\ monitor = NoMonitor
    /\ Len(txs) < MaxKnownTxs
    /\ \E k \in KnownKinds : txs' = Extend(txs, k, 1)
    /\ UNCHANGED <<monitor, knownAddresses, response, analysis, displayed, p90, out>>

\* The address analysis after the load.
KnownAnalyze ==
    /\ out # NoOut
    /\ Analyze

\* The monitor's analyzeTransaction on the newest transaction after the load.
KnownAnalyzeTransaction ==
    /\ out # NoOut
    /\ monitor = NoMonitor
    /\ Len(txs) > 0
    /\ monitor' = [ pc |-> "analyzeTransaction",
                    panics |-> analyzeTransactionPanics(txs[1]),
                    AlertHistory |-> IF analyzeTransactionPanics(txs[1]) THEN <<>>
                                     ELSE analyzeTransaction(txs[1]) ]
    /\ UNCHANGED <<knownAddresses, txs, response, analysis, displayed, p90, out>>

NextKnown == LoadKnownAddresses \/ KnownMined \/ KnownAnalyze \/ KnownAnalyzeTransaction

SpecKnown == InitKnown /\ [][NextKnown]_vars

\* The tables a loaded file did not hold.
MissingTables ==
    IF out.file.kind = "missing" THEN TableNames
    ELSE IF out.file.kind = "object" THEN TableNames \ out.file.tables
    ELSE {}

\* The addresses of the transactions and the address under analysis.
Addresses ==
    {Subject} \cup {ToLower(txs[i].To) : i \in 1..Len(txs)}
              \cup {ToLower(txs[i].From) : i \in 1..Len(txs)}

\* C16: when known_addresses.json is missing or lacks one of its four
\* tables, loadKnownAddresses reports no error, no lookup in such a table
\* finds a label, and neither the address analysis nor the monitor's
\* analysis of a transaction fails on a list it would not fail on otherwise.
C16_MissingKnowledgeBase ==
    (out # NoOut /\ MissingTables # {}) =>
        /\ out.err = "nil"
        /\ \A name \in MissingTables : \A a \in Addresses : a \notin knownAddresses[name]
        /\ "Exchanges" \in MissingTables /\ TableNames \ MissingTables = {}
              => checkEtherscanLabels(Subject) = ""
        /\ "Mixers" \in MissingTables /\ AnalysedList =>
              \A i \in 1..Len(analysis.BehavioralFlags) :
                 analysis.BehavioralFlags[i].Type # "mixer_interaction"
        /\ (analysis # NoAnalysis /\ response = "ok") =>
              (Returned \/ analyzeAddressPanics(txs))
        /\ analysis # NoAnalysis => analysis.status # "error" \/ response = "neterr"
        /\ monitor # NoMonitor =>
              /\ monitor.panics => analyzeTransactionPanics(txs[1])
              /\ "Mixers" \in MissingTables /\ "Hackers" \in MissingTables =>
                    \A i \in 1..Len(monitor.AlertHistory) :
                       monitor.AlertHistory[i].AlertType
                          \notin {"mixer_interaction", "hacker_interaction"}

\* The file holds every table but the mixers; a list with a transfer to the
\* mixer 0xc has been analysed, by the address analysis and by the monitor,
\* and neither failed.
C16_Witness ==
    /\ out # NoOut
    /\ out.file.kind = "object"
    /\ MissingTables = {"Mixers"}
    /\ \E i \in 1..Len(txs) : ToLower(txs[i].To) = "0xc"
    /\ AnalysedList
    /\ monitor # NoMonitor
    /\ ~monitor.panics

\* The method selectors the documentation calls suspicious: flashLoan.
SuspiciousSelectors == {"0x5cffe9de"}

\* C17: a transaction whose call data begins with a suspicious method
\* selector, such as that of flashLoan, has a suspicious_method flag of
\* severity 0.80 among the behavioral flags.
C17_SuspiciousMethodFlag ==
    AnalysedList =>
        \A i \in 1..Len(txs) :
           (txs[i].Input.len >= 10 /\ txs[i].Input.methodId \in SuspiciousSelectors) =>
              \E j \in 1..Len(analysis.BehavioralFlags) :
                 /\ analysis.BehavioralFlags[j].Type = "suspicious_method"
                 /\ analysis.BehavioralFlags[j].Severity = 800
                 /\ analysis.BehavioralFlags[j].TxHash = txs[i].Hash

----------------------------------------------------------------------------
(* The gas-war detector and the address analysis                           *)

\* gasPrices of analyzeGasAnomaliesEnhanced: the gas prices that parse to a
\* positive number, in feed order.
gasPricesOf(t) ==
    MapSeq(SelectSeq(t, LAMBDA tx : SetStringOk(tx.GasPrice) /\ tx.GasPrice > 0),
           LAMBDA tx : tx.GasPrice)

\* sorted[idx] of a non-empty list of numbers sorted in increasing order,
\* idx counted from 0.
sortedAt(prices, idx) ==
    CHOOSE x \in Range(prices) :
       /\ Cardinality({i \in 1..Len(prices) : prices[i] < x}) <= idx
       /\ idx < Cardinality({i \in 1..Len(prices) : prices[i] <= x})

\* p50 and p90 of analyzeGasAnomaliesEnhanced.
p50Of(t) == sortedAt(gasPricesOf(t), Len(gasPricesOf(t)) \div 2)
p90Of(t) == sortedAt(gasPricesOf(t), (Len(gasPricesOf(t)) * 9) \div 10)

\* gasUsage[timestamp]: the gas prices counted in gasPrices of the
\* transactions of one time stamp, in feed order.
gasUsageOf(t, timestamp) ==
    gasPricesOf(SelectSeq(t, LAMBDA tx : tx.TimeStamp = timestamp))

\* detectGasWars: the time stamps that get a gas_war flag, those of three
\* or more transactions with strictly rising gas prices of which two or more
\* after the first are above five times the median.
detectGasWars(t, median) ==
    { timestamp \in {t[i].TimeStamp : i \in 1..Len(t)} :
         LET infos == gasUsageOf(t, timestamp)
         IN  /\ Len(infos) >= 3
             /\ \A i \in 2..Len(infos) : infos[i] > infos[i - 1]
             /\ Cardinality({i \in 2..Len(infos) : infos[i] > int64(median * 5)}) >= 2 }

\* dexRouters of detectFrontRunning; 0x7a25 stands for the Uniswap V2 router
\* 0x7a250d5630b4cf539739df2c5dacb4c659f2488d.
dexRouters == {"0x7a25", "0xe592", "0xd9e1"}

\* detectFrontRunning calls Int64 on the nil *big.Int of a gas price that is
\* no decimal number.
detectFrontRunningPanics(t) ==
    \E i \in 1..Len(t) : ~SetStringOk(t[i].GasPrice)

\* detectFrontRunning: one front_running_suspected flag per transaction
\* above ten times p90 that targets a DEX router or, not being the first or
\* the last of the list, has a neighbour below p90; in feed order.
detectFrontRunning(t, p) ==
    LET victimFound(i) ==
            /\ i > 1 /\ i < Len(t)
            /\ (t[i - 1].GasPrice < p \/ t[i + 1].GasPrice < p)
        hit(i) == /\ t[i].GasPrice > int64(p * 10)
                  /\ (ToLower(t[i].To) \in dexRouters \/ victimFound(i))
    IN  MapSeq(SelectSeq([i \in 1..Len(t) |-> i], hit),
               LAMBDA i : Flag("front_running_suspected", 850, t[i].Hash, ""))

\* p99 of analyzeGasAnomaliesEnhanced.
p99Of(t) == sortedAt(gasPricesOf(t), (Len(gasPricesOf(t)) * 99) \div 100)

\* detectExploitGasPattern: one exploit_execution flag per transaction above
\* the int64 product p99*20 that carries a value above 10 ETH and an input
\* of more than 1000 characters.
detectExploitGasPattern(t, p) ==
    LET hit(tx) == /\ tx.GasPrice > int64(p * 20)
                   /\ tx.Value > 0 /\ tx.Input.len > 1000
                   /\ tx.Value > 10 * Ether
    IN  MapSeq(SelectSeq(t, hit),
               LAMBDA tx : Flag("exploit_execution", 950, tx.Hash, tx.To))

\* Mutant of detectCensorshipEvasion: more than 30% of the prices suffice.
detectCensorshipEvasionThird(gasPrices, median) ==
    LET highGasCount ==
            Cardinality({i \in 1..Len(gasPrices) : gasPrices[i] > int64(median * 3)})
    IN  IF highGasCount * 10 > 3 * Len(gasPrices)
        THEN <<Flag("censorship_evasion", 800, "", "")>>
        ELSE <<>>

\* detectCensorshipEvasion: one censorship_evasion flag if more than 60% of
\* the gas prices are above the int64 product median*3.
detectCensorshipEvasion(gasPrices, median) ==
    LET highGasCount ==
            Cardinality({i \in 1..Len(gasPrices) : gasPrices[i] > int64(median * 3)})
    IN  IF highGasCount * 10 > 6 * Len(gasPrices)
        THEN <<Flag("censorship_evasion", 800, "", "")>>
        ELSE <<>>

\* analyzeGasAnomaliesEnhanced panics where one of its detectors does: on a
\* gas price that is no decimal number, once the list has three
\* transactions and a positive gas price.
analyzeGasAnomaliesEnhancedPanics(t) ==
    /\ Len(t) >= 3 /\ gasPricesOf(t) # <<>>
    /\ detectFrontRunningPanics(t)

\* The flag types analyzeGasAnomaliesEnhanced returns for a list: it returns
\* nothing for fewer than three transactions or no positive gas price, and
\* else what its five detectors return for p50, p90 and p99 of the sorted
\* positive gas prices.
enhancedFlagTypes(t) ==
    IF Len(t) < 3 \/ gasPricesOf(t) = <<>> THEN {}
    ELSE (IF detectFrontRunning(t, p90Of(t)) # <<>> THEN {"front_running_suspected"} ELSE {})
           \cup (IF detectSandwichAttacks(t, p90Of(t)) # <<>> THEN {"sandwich_attack"} ELSE {})
           \cup (IF detectGasWars(t, p50Of(t)) # {} THEN {"gas_war"} ELSE {})
           \cup (IF detectExploitGasPattern(t, p99Of(t)) # <<>> THEN {"exploit_execution"} ELSE {})
           \cup (IF detectCensorshipEvasion(gasPricesOf(t), p50Of(t)) # <<>>
                 THEN {"censorship_evasion"} ELSE {})

\* A transfer at a gas price of g wei, d seconds before the one listed
\* before it.
GasWarKind(g, d) ==
    [ From |-> "0xa", To |-> "0xb", Value |-> 10, GasPrice |-> g, Delta |-> d,
      IsError |-> "0", Input |-> [len |-> 2, methodId |-> ""], ContractAddress |-> "" ]

GasWarKinds == {GasWarKind(1, 0), GasWarKind(10, 0), GasWarKind(20, 0), GasWarKind(1, 60)}

\* The longest list of the feed.
MaxGasWarTxs == 5

InitGasWar ==
    /\ knownAddresses = LoadedAddresses
    /\ txs = <<>>
    /\ response = "none"
    /\ monitor = NoMonitor
    /\ analysis = NoAnalysis
    /\ displayed = FALSE
    /\ p90 = 0
    /\ out = NoOut

\* The address has one more (older) transaction.
GasWarMined ==
    /\ analysis = NoAnalysis
    /\ Len(txs) < MaxGasWarTxs
    /\ \E k \in GasWarKinds : txs' = Extend(txs, k, 1)
    /\ UNCHANGED <<monitor, knownAddresses, response, analysis, displayed, p90, out>>

NextGasWar == GasWarMined \/ Analyze

SpecGasWar == InitGasWar /\ [][NextGasWar]_vars

\* C18: whenever the list meets the condition of a gas-specific attack
\* detector (here the sandwich and the gas-war detector, on the percentiles
\* of the list), the result analyzeAddress returns for the list has the
\* detector's flag among its behavioral flags.
C18_GasAttackFlagsReturned ==
    AnalysedList =>
        \A type \in enhancedFlagTypes(txs) :
           \E j \in 1..Len(analysis.BehavioralFlags) :
              analysis.BehavioralFlags[j].Type = type

\* C19: a failure of the transaction feed, be it a failed request or a
\* non-success answer of the explorer, comes back from analyzeAddress as a
\* failure, never as the no-transaction-history result.
C19_FeedFailureSurfaced ==
    (analysis # NoAnalysis /\ response \in {"neterr", "failed"}) =>
        analysis.status = "error"

----------------------------------------------------------------------------
(* retry.Do                                                                *)

\* What fn may return: nil, two retryable errors and one that is not.
FnResults == {"nil", "ErrAPIRateLimit", "ErrAPIUnavailable", "ErrInvalidResponse"}

\* errors.IsRetryableError
IsRetryableError(err) ==
    err \in {"ErrAPIRateLimit", "ErrAPIUnavailable", "ErrDatabaseConnection"}

\* The largest MaxAttempts of a Config.
MaxRetryAttempts == 3

\* Do before its loop.  r.done tells whether ctx is cancelled, r.woken which
\* case of the select the goroutine has been made ready with, r.calls counts
\* the invocations of fn; r.cancelledInWait and r.callsAtCancel record a
\* cancellation that came while Do was blocked in the select.
InitRetry ==
    /\ knownAddresses = LoadedAddresses
    /\ txs = <<>>
    /\ response = "none"
    /\ monitor = NoMonitor
    /\ analysis = NoAnalysis
    /\ displayed = FALSE
    /\ p90 = 0
    /\ \E max \in (0 - 1)..MaxRetryAttempts : \E zero \in BOOLEAN :
          out = [ fn |-> "Do", pc |-> "for", MaxAttempts |-> max, delayZero |-> zero,
                  attempt |-> 0, calls |-> 0, returns |-> <<>>,
                  lastErr |-> "nil", result |-> "none",
                  done |-> FALSE, woken |-> "none",
                  cancelledInWait |-> FALSE, callsAtCancel |-> 0 ]

\* Mutant of afterSelect: the wait is a plain sleep, the context is not
\* looked at.
afterSelectSleep(r) ==
    [r EXCEPT !.pc = "for", !.attempt = r.attempt + 1, !.woken = "none"]

\* The select of Do once a case is ready: ctx.Done returns ctx.Err(), the
\* timer goes on to the next attempt.
afterSelect(r) ==
    IF r.woken = "done"
    THEN [r EXCEPT !.pc = "returned", !.result = "ctx.Err", !.woken = "none"]
    ELSE [r EXCEPT !.pc = "for", !.attempt = r.attempt + 1, !.woken = "none"]

\* Mutant of afterFn: the wait comes before the test of the attempts left,
\* so that one follows the last attempt too.
afterFnTrailingWait(r, err, timerFirst) ==
    LET called == [r EXCEPT !.calls = r.calls + 1, !.returns = Append(r.returns, err)]
    IN  IF err = "nil" THEN [called EXCEPT !.pc = "returned", !.result = "nil"]
        ELSE IF ~IsRetryableError(err)
        THEN [called EXCEPT !.pc = "returned", !.result = err]
        ELSE [called EXCEPT
                !.pc = "select", !.lastErr = err,
                !.woken = IF r.done
                          THEN (IF r.delayZero /\ timerFirst THEN "timer" ELSE "done")
                          ELSE "none"]

\* The body of the loop of Do once fn has returned err: the test of the
\* error and of the attempts left, up to the return or the select.  A
\* goroutine that reaches the select with ctx cancelled takes that case,
\* unless a delay of zero has made the timer ready as well: then either
\* (timerFirst).  r.returns lists what fn returned, call after call.
afterFn(r, err, timerFirst) ==
    LET called == [r EXCEPT !.calls = r.calls + 1, !.returns = Append(r.returns, err)]
    IN  IF err = "nil" THEN [called EXCEPT !.pc = "returned", !.result = "nil"]
        ELSE IF ~IsRetryableError(err)
        THEN [called EXCEPT !.pc = "returned", !.result = err]
        ELSE IF r.attempt >= r.MaxAttempts - 1
        THEN [called EXCEPT !.pc = "returned", !.result = err, !.lastErr = err]
        ELSE [called EXCEPT
                !.pc = "select", !.lastErr = err,
                !.woken = IF r.done
                          THEN (IF r.delayZero /\ timerFirst THEN "timer" ELSE "done")
                          ELSE "none"]

\* One pass of the loop of Do up to its return or its select: the loop
\* test, fn, and what follows it.
DoAttempt ==
    /\ out.pc = "for"
    /\ IF out.attempt >= out.MaxAttempts
       THEN out' = [out EXCEPT !.pc = "returned", !.result = out.lastErr]
       ELSE \E err \in FnResults : \E timerFirst \in BOOLEAN :
               out' = afterFn(out, err, timerFirst)
    /\ UNCHANGED <<monitor, knownAddresses, txs, response, analysis, displayed, p90>>

\* The caller cancels ctx.  A goroutine blocked in the select is made ready
\* with the case of ctx.Done.
Cancel ==
    /\ out.pc # "returned"
    /\ ~out.done
    /\ out' = IF out.pc = "select" /\ out.woken = "none"
              THEN [out EXCEPT !.done = TRUE, !.woken = "done",
                               !.cancelledInWait = TRUE, !.callsAtCancel = out.calls]
              ELSE [out EXCEPT !.done = TRUE]
    /\ UNCHANGED <<monitor, knownAddresses, txs, response, analysis, displayed, p90>>

\* The timer of time.After fires: a goroutine blocked in the select is made
\* ready with its case.
TimerFires ==
    /\ out.pc = "select"
    /\ out.woken = "none"
    /\ out' = [out EXCEPT !.woken = "timer"]
    /\ UNCHANGED <<monitor, knownAddresses, txs, response, analysis, displayed, p90>>

\* The goroutine runs the case it was made ready with.
Wake ==
    /\ out.pc = "select"
    /\ out.woken # "none"
    /\ out' = afterSelect(out)
    /\ UNCHANGED <<monitor, knownAddresses, txs, response, analysis, displayed, p90>>

NextRetry == DoAttempt \/ Cancel \/ TimerFires \/ Wake

SpecRetry == InitRetry /\ [][NextRetry]_vars

\* A goroutine that can run does run, and a started timer fires.
SpecRetryFair ==
    SpecRetry /\ WF_vars(DoAttempt) /\ WF_vars(TimerFires) /\ WF_vars(Wake)

\* C20: when ctx is cancelled while Do waits between two attempts, Do does
\* not invoke fn again and returns, and what it returns is the error of ctx.
C20_CancelledWaitReturnsContextError ==
    /\ [](out.cancelledInWait =>
            /\ out.calls = out.callsAtCancel
            /\ out.pc = "returned" => out.result = "ctx.Err")
    /\ (out.cancelledInWait ~> out.pc = "returned")

\* Do has returned the error of ctx after a cancellation during the wait
\* that followed its first attempt, with attempts left.
C20_Witness ==
    /\ out.cancelledInWait
    /\ out.pc = "returned"
    /\ out.result = "ctx.Err"
    /\ out.calls = 1
    /\ out.MaxAttempts = MaxRetryAttempts

----------------------------------------------------------------------------
(* Two analyses of one address                                             *)

\* What the explorer may list for the address.
TwiceKinds == TxKinds \cup {SecondMixerKind}

\* The longest list analysed twice.
MaxTwiceTxs == 3

InitTwice ==
    /\ knownAddresses \in {LoadedAddresses, TwoMixers}
    /\ txs = <<>>
    /\ response = "none"
    /\ monitor = NoMonitor
    /\ analysis = NoAnalysis
    /\ displayed = FALSE
    /\ p90 = 0
    /\ out = NoOut

\* The address has one more (older) transaction.
TwiceMined ==
    /\ analysis = NoAnalysis
    /\ Len(txs) < MaxTwiceTxs
    /\ \E k \in TwiceKinds : txs' = Extend(txs, k, 1)
    /\ UNCHANGED <<monitor, knownAddresses, response, analysis, displayed, p90, out>>

\* analyzeAddress is called; out keeps the wall clock of the call.
AnalyzeOnce ==
    /\ analysis = NoAnalysis
    /\ \E answer \in {"ok", "notok"} :
       \E now \in {Newest + 60, Newest + 100000} :
       \E order \in Orders(interactionsOf(txs)) :
       \E nodeOrder \in Orders(DOMAIN fromToOf(txs)) :
          /\ response' = answer
          /\ analysis' = analyzeAddress(Subject, answer, txs, now, order, nodeOrder)
          /\ out' = [fn |-> "analyzeAddress", now |-> now, analysis |-> NoAnalysis]
    /\ UNCHANGED <<monitor, knownAddresses, txs, displayed, p90>>

\* analyzeAddress is called again on the same address, answer of the
\* explorer, knowledge base and wall clock; the call ranges over its maps in
\* an order of its own.
AnalyzeAgain ==
    /\ out # NoOut
    /\ out.analysis = NoAnalysis
    /\ \E order \in Orders(interactionsOf(txs)) :
       \E nodeOrder \in Orders(DOMAIN fromToOf(txs)) :
          out' = [out EXCEPT
                    !.analysis = analyzeAddress(Subject, response, txs, out.now,
                                                order, nodeOrder)]
    /\ UNCHANGED <<monitor, knownAddresses, txs, response, analysis, displayed, p90>>

NextTwice == TwiceMined \/ AnalyzeOnce \/ AnalyzeAgain

SpecTwice == InitTwice /\ [][NextTwice]_vars

\* The second analysis has returned.
AnalysedTwice == out # NoOut /\ out.analysis # NoAnalysis

ReturnedOfFn ==
    LET n == Len(out.returns)
        bound == Max(out.MaxAttempts, 0)
    IN  /\ n <= bound
        /\ \A i \in 1..(n - 1) : IsRetryableError(out.returns[i])
        /\ out.pc = "select" => (n < bound /\ IsRetryableError(out.returns[n]))
        /\ (out.pc = "returned" /\ out.result # "ctx.Err" /\ n > 0) =>
              /\ out.result = out.returns[n]
              /\ IsRetryableError(out.returns[n]) => n = bound
        /\ (n > 0 /\ ~IsRetryableError(out.returns[n])) => out.pc = "returned"
        /\ (n = bound /\ n > 0) => out.pc = "returned"

\* C21: Do terminates after at most MaxAttempts invocations of fn: it
\* returns nil at the first invocation that succeeds, the error at the first
\* one that is not retryable, without a wait, and after MaxAttempts
\* retryable failures the error of the last one, without a wait either.
C21_TerminatesWithinMaxAttempts ==
    /\ [](out.calls = Len(out.returns) /\ ReturnedOfFn)
    /\ <>(out.pc = "returned")

\* Do has returned the last error after MaxAttempts retryable failures and
\* the waits between them.
C21_Witness ==
    /\ out.pc = "returned"
    /\ out.MaxAttempts = MaxRetryAttempts
    /\ out.calls = MaxRetryAttempts
    /\ out.result = "ErrAPIUnavailable"

\* C29: whatever MaxAttempts is, zero and below included, Do returns nil
\* only if an invocation of fn returned nil.
C29_NilOnlyAfterSuccess ==
    (out.pc = "returned" /\ out.result = "nil") =>
        \E i \in 1..Len(out.returns) : out.returns[i] = "nil"

----------------------------------------------------------------------------
(* analyzeTimePatterns and the order of the feed                           *)

\* A transfer d seconds before the one listed before it.
TimeKind(d) ==
    [ From |-> "0xa", To |-> "0xb", Value |-> 10, GasPrice |-> 1, Delta |-> d,
      IsError |-> "0", Input |-> [len |-> 2, methodId |-> ""], ContractAddress |-> "" ]

\* The distances in time of feed-adjacent transactions: none, ten seconds
\* and a hundred.
TimeDeltas == {0, 10, 100}

\* The longest list of the feed.
MaxTimeTxs == 6

InitTime ==
    /\ knownAddresses = LoadedAddresses
    /\ txs = <<>>
    /\ response = "none"
    /\ monitor = NoMonitor
    /\ analysis = NoAnalysis
    /\ displayed = FALSE
    /\ p90 = 0
    /\ out = NoOut

\* The address has one more (older) transaction.
TimeMined ==
    /\ out = NoOut
    /\ Len(txs) < MaxTimeTxs
    /\ \E d \in TimeDeltas : txs' = Extend(txs, TimeKind(d), 1)
    /\ UNCHANGED <<monitor, knownAddresses, response, analysis, displayed, p90, out>>

\* analyzeTimePatterns is applied to the list as the feed delivers it, newest
\* first or oldest first.
ApplyTimePatterns ==
    /\ out = NoOut
    /\ \E oldestFirst \in BOOLEAN :
          LET delivered == IF oldestFirst THEN reverse(txs) ELSE txs
          IN  out' = [ fn |-> "analyzeTimePatterns", oldestFirst |-> oldestFirst,
                       timeGaps |-> timeGapsOf(delivered),
                       flags |-> analyzeTimePatterns(delivered) ]
    /\ UNCHANGED <<monitor, knownAddresses, txs, response, analysis, displayed, p90>>

NextTime == TimeMined \/ ApplyTimePatterns

SpecTime == InitTime /\ [][NextTime]_vars

\* C23: the gaps of analyzeTimePatterns are the absolute differences of the
\* time stamps of feed-adjacent transactions, so a feed delivered oldest
\* first has the gaps, in reverse, and the automated_behavior and
\* burst_pattern flags of the same feed delivered newest first.
C23_GapsAreAbsoluteDifferences ==
    out.fn = "analyzeTimePatterns" =>
        /\ out.flags = analyzeTimePatterns(txs)
        /\ out.timeGaps =
              (IF out.oldestFirst THEN reverse(timeGapsOf(txs)) ELSE timeGapsOf(txs))

----------------------------------------------------------------------------
(* detectFrontRunning                                                      *)

\* Calls of a contract or of a DEX router at gas prices of 1, 3 and 50, and
\* one whose gas price is no decimal number.
FrontRunKinds ==
    LET call(to, g) ==
            [ From |-> "0xa", To |-> to, Value |-> 10, GasPrice |-> g, Delta |-> 0,
              IsError |-> "0", Input |-> [len |-> 138, methodId |-> "0x38ed1739"],
              ContractAddress |-> "" ]
    IN  { call("0x7a25", 50), call("0xc", 50), call("0xc", 1), call("0xc", 3),
          call("0xc", 0 - 1) }

\* The longest list handed to detectFrontRunning.
MaxFrontRunTxs == 3

InitFrontRun ==
    /\ knownAddresses = LoadedAddresses
    /\ txs = <<>>
    /\ response = "none"
    /\ monitor = NoMonitor
    /\ analysis = NoAnalysis
    /\ displayed = FALSE
    /\ p90 = 0
    /\ out = NoOut

\* The list has one more transaction.
FrontRunAppend ==
    /\ out = NoOut
    /\ Len(txs) < MaxFrontRunTxs
    /\ \E k \in FrontRunKinds : txs' = Extend(txs, k, 1)
    /\ UNCHANGED <<monitor, knownAddresses, response, analysis, displayed, p90, out>>

\* detectFrontRunning is applied to the list and a 90th percentile.
ApplyFrontRunning ==
    /\ out = NoOut
    /\ \E p \in Percentiles \cup {3} :
          /\ p90' = p
          /\ out' = IF detectFrontRunningPanics(txs)
                    THEN [fn |-> "detectFrontRunning", panics |-> TRUE, flags |-> <<>>]
                    ELSE [fn |-> "detectFrontRunning", panics |-> FALSE,
                          flags |-> detectFrontRunning(txs, p)]
    /\ UNCHANGED <<monitor, knownAddresses, txs, response, analysis, displayed>>

NextFrontRun == FrontRunAppend \/ ApplyFrontRunning

SpecFrontRun == InitFrontRun /\ [][NextFrontRun]_vars

\* C22: every transaction above ten times p90 that targets a known DEX
\* router, or whose previous or next transaction in the feed (whichever
\* exist) is below p90, has a front_running_suspected flag of severity 0.85,
\* the first and the last transaction of the feed included.
C22_FrontRunningFlagged ==
    (out.fn = "detectFrontRunning" /\ ~out.panics) =>
        \A i \in 1..Len(txs) :
           ( /\ txs[i].GasPrice > 10 * p90
             /\ \/ ToLower(txs[i].To) \in dexRouters
                \/ i > 1 /\ txs[i - 1].GasPrice < p90
                \/ i < Len(txs) /\ txs[i + 1].GasPrice < p90 )
           => \E j \in 1..Len(out.flags) :
                 /\ out.flags[j].Type = "front_running_suspected"
                 /\ out.flags[j].Severity = 850
                 /\ out.flags[j].TxHash = txs[i].Hash

----------------------------------------------------------------------------
(* analyzeGasAnomaliesEnhanced                                             *)

\* A gas price of 2^62 wei, in units of 2^40 wei: it fits int64, its
\* product by 3 or by 20 does not.
HugeGas == 2^22

\* Calls at gas prices of 1, 4, 50 and 2^22 units of 2^40 wei, and one at
\* 2^22 units that carries 20 ETH and an input of 2000 characters.
EnhancedKinds ==
    LET call(g, v, n) ==
            [ From |-> "0xa", To |-> "0xc", Value |-> v, GasPrice |-> g, Delta |-> 0,
              IsError |-> "0", Input |-> [len |-> n, methodId |-> "0x38ed1739"],
              ContractAddress |-> "" ]
    IN  { call(1, 10, 138), call(4, 10, 138), call(50, 10, 138),
          call(HugeGas, 10, 138), call(HugeGas, 20 * Ether, 2000) }

\* The longest list handed to analyzeGasAnomaliesEnhanced.
MaxEnhancedTxs == 4

InitEnhanced ==
    /\ knownAddresses = LoadedAddresses
    /\ txs = <<>>
    /\ response = "none"
    /\ monitor = NoMonitor
    /\ analysis = NoAnalysis
    /\ displayed = FALSE
    /\ p90 = 0
    /\ out = NoOut

\* The list has one more transaction.
EnhancedAppend ==
    /\ out = NoOut
    /\ Len(txs) < MaxEnhancedTxs
    /\ \E k \in EnhancedKinds : txs' = Extend(txs, k, 1)
    /\ UNCHANGED <<monitor, knownAddresses, response, analysis, displayed, p90, out>>

\* analyzeGasAnomaliesEnhanced is applied to the list.
ApplyEnhanced ==
    /\ out = NoOut
    /\ out' = IF analyzeGasAnomaliesEnhancedPanics(txs)
              THEN [fn |-> "analyzeGasAnomaliesEnhanced", panics |-> TRUE, types |-> {}]
              ELSE [fn |-> "analyzeGasAnomaliesEnhanced", panics |-> FALSE,
                    types |-> enhancedFlagTypes(txs)]
    /\ UNCHANGED <<monitor, knownAddresses, txs, response, analysis, displayed, p90>>

NextEnhanced == EnhancedAppend \/ ApplyEnhanced

SpecEnhanced == InitEnhanced /\ [][NextEnhanced]_vars

\* C25: for a list whose gas prices parse and whose median times three fits
\* int64, analyzeGasAnomaliesEnhanced returns no censorship_evasion flag.
C25_NoCensorshipEvasion ==
    ( /\ out.fn = "analyzeGasAnomaliesEnhanced" /\ ~out.panics
      /\ gasPricesOf(txs) # <<>>
      /\ p50Of(txs) * 3 = int64(p50Of(txs) * 3) )
    => "censorship_evasion" \notin out.types

\* analyzeGasAnomaliesEnhanced has run its detectors on a list that holds
\* gas prices above three times its median, which fits int64.
C25_Witness ==
    /\ out.fn = "analyzeGasAnomaliesEnhanced" /\ ~out.panics
    /\ Len(txs) >= 3
    /\ p50Of(txs) * 3 = int64(p50Of(txs) * 3)
    /\ \E i \in 1..Len(txs) : txs[i].GasPrice > p50Of(txs) * 3

\* C26: when fewer than 100 transactions carry a positive gas price and all
\* gas prices parse, analyzeGasAnomaliesEnhanced returns no
\* exploit_execution flag.
C26_NoExploitExecution ==
    ( /\ out.fn = "analyzeGasAnomaliesEnhanced" /\ ~out.panics
      /\ \A i \in 1..Len(txs) : SetStringOk(txs[i].GasPrice)
      /\ Len(gasPricesOf(txs)) < 100 )
    => "exploit_execution" \notin out.types

----------------------------------------------------------------------------
(* calculateFinalRiskScore and the number of real-time flags               *)

\* Values of the Benford and the velocity score.
StatSamples == {0, 500, 1000}

\* The messages checkRealTimeRisks may append, with their place in its
\* fixed order.
RealTimeSamples ==
    { [rank |-> 1, flag |-> RealTimeFlag("high_failure_rate", "")],
      [rank |-> 2, flag |-> RealTimeFlag("created_contracts", "")],
      [rank |-> 3, flag |-> RealTimeFlag("hacker", "0xb")] }

InitScore ==
    /\ knownAddresses = LoadedAddresses
    /\ txs = <<>>
    /\ response = "none"
    /\ monitor = NoMonitor
    /\ \E benford \in StatSamples : \E velocity \in StatSamples :
          analysis = [ status |-> "ok", RiskScore |-> 0, BehavioralFlags |-> <<>>,
                       StatisticalScores |->
                           [ BenfordScore |-> benford, VelocityScore |-> velocity,
                             EntropyScore |-> 0, ClusteringScore |-> 0,
                             TemporalAnomaly |-> 0 ],
                       RealTimeFlags |-> <<>>,
                       DetailedAnalysis |-> [transaction_count |-> 100],
                       Recommendations |-> <<>> ]
    /\ displayed = FALSE
    /\ p90 = 0
    /\ out = NoOut

\* One more check of checkRealTimeRisks has left a message.
AddRealTimeFlag ==
    /\ out = NoOut
    /\ \E s \in RealTimeSamples :
          /\ \A t \in RealTimeSamples :
                t.flag \in Range(analysis.RealTimeFlags) => t.rank < s.rank
          /\ analysis' = [analysis EXCEPT !.RealTimeFlags = Append(@, s.flag)]
    /\ UNCHANGED <<monitor, knownAddresses, txs, response, displayed, p90, out>>

\* analyzeAddress sets analysis.RiskScore.
ApplyFinalRiskScore ==
    /\ out = NoOut
    /\ analysis' = [analysis EXCEPT !.RiskScore = calculateFinalRiskScore(analysis)[1]]
    /\ out' = [fn |-> "calculateFinalRiskScore"]
    /\ UNCHANGED <<monitor, knownAddresses, txs, response, displayed, p90>>

NextScore == AddFlag \/ AddRealTimeFlag \/ ApplyFinalRiskScore

SpecScore == InitScore /\ [][NextScore]_vars

\* C30: for the same behavioral flags and statistical scores, the risk
\* score of an analysis is not below the risk score the analysis would have
\* with fewer of its real-time flags, with none of them in particular.
C30_ScoreMonotoneInRealTimeFlags ==
    out.fn = "calculateFinalRiskScore" =>
        \A k \in 0..Len(analysis.RealTimeFlags) :
           calculateFinalRiskScore(
               [analysis EXCEPT !.RealTimeFlags = SubSeq(@, 1, k)])[1]
             <= analysis.RiskScore

----------------------------------------------------------------------------
(* MemoryCache                                                             *)

CacheKeys == {"wallet", "tx"}

\* The ttl of a Set, in ticks of the clock.
CacheTTLs == {0, 1, 2}

\* The last instant of the clock.
MaxNow == 3

\* item, exists := m.data[key]
hasItem(m, key) == key \in DOMAIN m.data

\* time.Now().After(item.expiresAt)
expired(m, key) == m.now > m.data[key].expiresAt

\* delete(m.data, key)
deleteKey(data, key) == [k \in (DOMAIN data) \ {key} |-> data[k]]

\* MemoryCache.Get: the cache after it and what it returns, the value or
\* ErrCacheMiss; an expired item is deleted.
Get(m, key) ==
    IF ~hasItem(m, key) THEN [cache |-> m, err |-> "ErrCacheMiss", value |-> ""]
    ELSE IF expired(m, key)
    THEN [cache |-> [m EXCEPT !.data = deleteKey(@, key)], err |-> "ErrCacheMiss",
          value |-> ""]
    ELSE [cache |-> m, err |-> "nil", value |-> m.data[key].value]

\* MemoryCache.Set: the item expires ttl after now.
Set(m, key, value, ttl) ==
    [m EXCEPT !.data = [k \in (DOMAIN @) \cup {key} |->
                           IF k = key THEN [value |-> value, expiresAt |-> m.now + ttl]
                           ELSE @[k]]]

\* MemoryCache.Delete
Delete(m, key) == [m EXCEPT !.data = deleteKey(@, key)]

\* MemoryCache.Exists
Exists(m, key) == hasItem(m, key)

\* NewMemoryCache, at instant 0.
InitCache ==
    /\ knownAddresses = LoadedAddresses
    /\ txs = <<>>
    /\ response = "none"
    /\ monitor = NoMonitor
    /\ analysis = NoAnalysis
    /\ displayed = FALSE
    /\ p90 = 0
    /\ out = [fn |-> "MemoryCache", now |-> 0, data |-> emptyMap,
              op |-> "NewMemoryCache", key |-> "", returned |-> "" ]

CacheSet ==
    /\ \E key \in CacheKeys : \E ttl \in CacheTTLs :
          out' = [Set(out, key, "analysis", ttl) EXCEPT
                     !.op = "Set", !.key = key, !.returned = "nil"]
    /\ UNCHANGED <<monitor, knownAddresses, txs, response, analysis, displayed, p90>>

CacheGet ==
    /\ \E key \in CacheKeys :
          out' = [Get(out, key).cache EXCEPT
                     !.op = "Get", !.key = key, !.returned = Get(out, key).err]
    /\ UNCHANGED <<monitor, knownAddresses, txs, response, analysis, displayed, p90>>

CacheDelete ==
    /\ \E key \in CacheKeys :
          out' = [Delete(out, key) EXCEPT
                     !.op = "Delete", !.key = key, !.returned = "nil"]
    /\ UNCHANGED <<monitor, knownAddresses, txs, response, analysis, displayed, p90>>

CacheExists ==
    /\ \E key \in CacheKeys :
          out' = [out EXCEPT !.op = "Exists", !.key = key,
                             !.returned = IF Exists(out, key) THEN "true" ELSE "false"]
    /\ UNCHANGED <<monitor, knownAddresses, txs, response, analysis, displayed, p90>>

\* The clock advances.
TimePasses ==
    /\ out.now < MaxNow
    /\ out' = [out EXCEPT !.now = @ + 1, !.op = "time.Now", !.key = "", !.returned = ""]
    /\ UNCHANGED <<monitor, knownAddresses, txs, response, analysis, displayed, p90>>

NextCache == CacheSet \/ CacheGet \/ CacheDelete \/ CacheExists \/ TimePasses

SpecCache == InitCache /\ [][NextCache]_vars

\* C28: when Exists has just returned true for a key, a Get of that key at
\* the same instant returns a value; an expired entry is absent for both.
C28_ExistsAgreesWithGet ==
    (out.op = "Exists" /\ out.returned = "true") => Get(out, out.key).err = "nil"

----------------------------------------------------------------------------
(* Risk updates and new transactions of the monitor                        *)

\* C24: every risk update compares the new analysis with the analysis of
\* the previous tick that ran one, the first with the initial analysis.
C24_UpdateAgainstPreviousTick ==
    monitor.pc \in {"loop", "crashed", "stopped"} =>
        \A i \in 1..Len(monitor.riskUpdates) :
           monitor.riskUpdates[i].previous.madeAt
              = IF i = 1 THEN 0 ELSE monitor.riskUpdates[i - 1].current.madeAt

\* C27: with requests that succeed and a last block number held, every
\* transaction mined after the monitor started is in the end among those a
\* tick handed to analyzeTransaction, unless the monitor has panicked.
C27_MinedEventuallyAnalysed ==
    \A h \in 1..MaxChain :
       ( /\ monitor.pc = "loop"
         /\ monitor.LastBlockNumber # <<>>
         /\ h > monitor.startChain
         /\ \E i \in 1..Len(txs) : txs[i].Hash = h )
       ~> (h \in Observed \/ monitor.pc = "crashed")

\* The same for the transactions mined in a block of their own.
C27_OwnBlock ==
    \A h \in 1..MaxChain :
       ( /\ monitor.pc = "loop"
         /\ monitor.LastBlockNumber # <<>>
         /\ h > monitor.startChain
         /\ \E i \in 1..Len(txs) :
               /\ txs[i].Hash = h
               /\ \A j \in 1..Len(txs) : txs[j].Hash < h => txs[j].BlockNumber < txs[i].BlockNumber )
       ~> (h \in Observed \/ monitor.pc = "crashed")

=============================================================================
